---- MODULE Spec2Model ----
(***************************************************************************)
(* State-machine model of the MeridianAlgo/Utils console programs.         *)
(*                                                                         *)
(* Spec          the three CRUD-over-JSON menus (dividend tracker,         *)
(*               currency converter, economic calendar): one program per   *)
(*               behaviour, one step per blocking input() call.            *)
(* SpecSim       the order execution simulator and the portfolio tracker.  *)
(* SpecLauncher  main.py, the launcher of the level scripts.               *)
(* SpecFinnhub   finnhub.py: run() and its background socket thread.       *)
(* SpecYF        yflive_websocket.py: a YFLiveWebSocket client, the thread *)
(*               that calls its methods, and its worker thread.            *)
(* SpecLogger    logger.py: add_log, read_logs, edit_log, delete_log on     *)
(*               the text of log.txt.                                      *)
(* SpecIndicators technical_indicators.py: the menu and sma, ema, rsi,     *)
(*               macd on exact rationals.                                  *)
(* SpecOptions   options_chain_simulator.py: the menu and the payoff       *)
(*               diagram.                                                  *)
(***************************************************************************)
EXTENDS Integers, Sequences, FiniteSets, TLC

VARIABLES
    prog,       \* which script's main() is running
    pc,         \* position of main(): start, menu, a prompt, exit, raised
    choice,     \* the menu choice being handled (main's local `choice`)
    loc,        \* locals of the handler that is waiting at a prompt
    out,        \* the last message the program printed
    fs,         \* working directory: file name -> JSON content, or Missing
    dividends,  \* dividend_tracker.main's list
    rates,      \* currency_converter.main's list
    events,     \* economic_calendar.main's list
    portfolio,  \* order_execution_simulator.main's Portfolio object
    tracker_portfolio,  \* portfolio_tracker.main's list `portfolio`
    menus,      \* how many times print_menu has run (simulator and tracker)
    launcher_pc,    \* main.py: menu, in run_all_programs, in a script, done
    launcher_i,     \* run_all_programs: index of the for loop in PROGRAMS
    running,        \* the option of the script runpy is executing, or ""
    batch,          \* options run_program was called for since the last choice
    launched,       \* every option run_program was called for, in order
    fh_pc,          \* finnhub.run(): position of the main thread
    fh_wst,         \* finnhub: position of the thread running ws.run_forever
    fh_sock,        \* finnhub: the WebSocketApp's socket
    fh_elapsed,     \* finnhub: seconds of time.sleep(30) that have passed
    fh_sent,        \* finnhub: messages handed to ws.send, in order
    fh_threads,     \* finnhub: how many threads run() has started
    yf_reconnect,       \* YFLiveWebSocket.reconnect
    yf_custom_on_open,  \* whether the constructor was given an on_open
    yf_keep_running,    \* YFLiveWebSocket.keep_running
    yf_ws,              \* self.ws: 0 for None, n for the n-th WebSocketApp
    yf_conn,            \* the socket of the latest WebSocketApp
    yf_thread,          \* self.thread: none, alive, dead
    yf_worker,          \* position of the worker thread in _run_websocket
    yf_caller,          \* position of the thread that calls the client
    yf_calls,           \* how many calls that thread has made
    yf_join_left,       \* seconds left of thread.join(timeout=5)
    yf_sleep_left,      \* seconds left of the worker's time.sleep
    yf_since_close,     \* seconds since the worker's connection closed, -1: never
    yf_sent,            \* how many subscribe messages went out
    yf_attempts,        \* how many times the worker called run_forever
    yf_disconnected,    \* disconnect() has returned and connect() was not called since
    yf_threads,         \* worker threads started and not yet returned
    yf_call,            \* the method the calling thread called last
    log_call,       \* logger.py: the last call, with its arguments
    log_ret,        \* logger.py: what that call returned
    log_calls,      \* logger.py: how many calls were made
    ti_prices,      \* technical_indicators.main's list `prices`
    ti_vals,        \* technical_indicators: the list the last indicator returned
    oc_params,      \* options_chain_simulator.main's S, sigma, r, T
    oc_strikes,     \* options_chain_simulator.main's list `strikes`
    oc_rows         \* options_chain_simulator: the rows of the last payoff diagram

cliVars == <<prog, pc, choice, loc, out, fs>>
crudVars == <<dividends, rates, events>>
simVars == <<portfolio, tracker_portfolio, menus>>
launcherVars == <<launcher_pc, launcher_i, running, batch, launched>>
finnhubVars == <<fh_pc, fh_wst, fh_sock, fh_elapsed, fh_sent, fh_threads>>
yfVars ==
    <<yf_reconnect, yf_custom_on_open, yf_keep_running, yf_ws, yf_conn,
      yf_thread, yf_worker, yf_caller, yf_calls, yf_join_left, yf_sleep_left,
      yf_since_close, yf_sent, yf_attempts, yf_disconnected, yf_threads,
      yf_call>>
socketVars == <<finnhubVars, yfVars>>
loggerVars == <<log_call, log_ret, log_calls>>
indicatorVars == <<ti_prices, ti_vals>>
optionsVars == <<oc_params, oc_strikes, oc_rows>>
toolVars == <<loggerVars, indicatorVars, optionsVars>>
otherVars == <<launcherVars, socketVars, toolVars>>
vars == <<cliVars, crudVars, simVars, otherVars>>

(***************************************************************************)
(* Bounds of the model.                                                    *)
(***************************************************************************)
MaxRecords == 2     \* longest in-memory list an add is still offered for
MaxMenus == 4       \* print_menu calls after which only the exit choice is entered

(***************************************************************************)
(* Text the user can type, and Python's str/float/strptime on it.          *)
(***************************************************************************)
\* a file: whether os.path.exists holds, and the JSON document it contains
Missing == [exists |-> FALSE, data |-> <<>>]
File(data) == [exists |-> TRUE, data |-> data]
NoLoc == [none |-> TRUE]
NoChoice == ""

\* str.strip()
Strip(s) ==
    CASE s = " msft " -> "msft"
      [] s = " usd" -> "usd"
      [] s = "1 " -> "1"
      [] s = " 2" -> "2"
      [] s = "3 " -> "3"
      [] s = " mine.json" -> "mine.json"
      [] s = " q" -> "q"
      [] s = " " -> ""
      [] OTHER -> s

\* str.upper()
Upper(s) ==
    CASE s = "aapl" -> "AAPL"
      [] s = "msft" -> "MSFT"
      [] s = "usd" -> "USD"
      [] s = "eur" -> "EUR"
      [] s = "cpi" -> "CPI"
      [] s = "a" -> "A"
      [] s = "q" -> "Q"
      [] s = "x" -> "X"
      [] OTHER -> s

\* str.lower()
Lower(s) ==
    CASE s = "CPI" -> "cpi"
      [] s = "AAPL" -> "aapl"
      [] s = "BUY" -> "buy"
      [] s = "Sell" -> "sell"
      [] s = "LIMIT" -> "limit"
      [] OTHER -> s

\* The fields %Y-%m-%d finds in a typed line; <<>> when the line does not
\* have that shape.
DateFields(s) ==
    CASE s = "2024-01-15" -> <<2024, 1, 15>>
      [] s = "2024-03-01" -> <<2024, 3, 1>>
      [] s = "2024-02-30" -> <<2024, 2, 30>>
      [] s = "2024-13-01" -> <<2024, 13, 1>>
      [] OTHER -> <<>>

IsLeap(y) == (y % 4 = 0 /\ y % 100 # 0) \/ y % 400 = 0

DaysInMonth(y, m) ==
    CASE m \in {4, 6, 9, 11} -> 30
      [] m = 2 -> IF IsLeap(y) THEN 29 ELSE 28
      [] OTHER -> 31

\* datetime.strptime(s, '%Y-%m-%d') returns (TRUE) or raises ValueError (FALSE)
strptime_ok(s) ==
    LET f == DateFields(s) IN
    /\ f # <<>>
    /\ f[2] \in 1..12
    /\ f[3] \in 1..DaysInMonth(f[1], f[2])

\* float(s) raises ValueError unless s is the text of a number
ValueError == "ValueError"
float_ok(s) == s \in {"1", "2", "3", "10", "6000", "-1"}

\* float(s) for a line float() accepts
float(s) ==
    CASE s = "1" -> 1
      [] s = "2" -> 2
      [] s = "3" -> 3
      [] s = "10" -> 10
      [] s = "6000" -> 6000
      [] s = "-1" -> -1

DateInputs == {"2024-01-15", "2024-03-01", "2024-02-30", "Jan 15"}
FloatInputs == {"3", "10", "abc"}
SharesInputs == {"10", ""}
CurrencyInputs == {" usd", "eur"}
EventTypeInputs == {"CPI", "cpi"}
DescriptionInputs == {"first print", "revised"}
ImpactInputs == {"High", "high"}
TickerInputs == {"aapl", " msft "}

(***************************************************************************)
(* JSON documents: a dict is the sequence of its <<key, value>> pairs in   *)
(* insertion order, a list is a sequence.                                  *)
(***************************************************************************)
DictGet(d, k) == d[CHOOSE i \in 1..Len(d) : d[i][1] = k][2]

RECURSIVE SeqsUpTo(_, _)
SeqsUpTo(S, n) ==
    IF n = 0 THEN {<<>>}
    ELSE LET prev == SeqsUpTo(S, n - 1) IN
         prev \cup {Append(q, x) : q \in {p \in prev : Len(p) = n - 1}, x \in S}

RemoveAt(s, i) == SubSeq(s, 1, i - 1) \o SubSeq(s, i + 1, Len(s))

\* the lowest index at which hits is TRUE, or -1 (the for/return -1 loop of
\* the find_* functions); the result is Python's 0-based index
FirstIndex(hits) ==
    IF \E i \in 1..Len(hits) : hits[i]
    THEN (CHOOSE i \in 1..Len(hits) :
            hits[i] /\ \A j \in 1..(i - 1) : ~hits[j]) - 1
    ELSE -1

(***************************************************************************)
(* Dividend tracker                                                        *)
(***************************************************************************)
DIVIDENDS_FILE == "dividends.json"

\* Dividend.__init__
Dividend(ticker, ex_date, pay_date, amount, shares) ==
    [ticker |-> Upper(ticker), ex_date |-> ex_date, pay_date |-> pay_date,
     amount |-> amount, shares |-> shares]

\* Dividend.to_dict: self.__dict__, in the order __init__ sets the attributes
Dividend_to_dict(d) ==
    << <<"ticker", d.ticker>>, <<"ex_date", d.ex_date>>,
       <<"pay_date", d.pay_date>>, <<"amount", d.amount>>,
       <<"shares", d.shares>> >>

\* Dividend.from_dict with the two dates passed in the wrong order
Dividend_from_dict_swapped(d) ==
    Dividend(DictGet(d, "ticker"), DictGet(d, "pay_date"),
             DictGet(d, "ex_date"), DictGet(d, "amount"), DictGet(d, "shares"))

\* Dividend.from_dict
Dividend_from_dict(d) ==
    Dividend(DictGet(d, "ticker"), DictGet(d, "ex_date"),
             DictGet(d, "pay_date"), DictGet(d, "amount"), DictGet(d, "shares"))

\* dividend_tracker.input_date: the line is returned when strptime accepts
\* it; otherwise the message is printed and the prompt is shown again
input_date_ok(s) == strptime_ok(s)

find_dividend(list, ticker, ex_date) ==
    FirstIndex([i \in 1..Len(list) |->
        list[i].ticker = Upper(ticker) /\ list[i].ex_date = ex_date])

\* save_dividends: the file system after open(fname, 'w') and json.dump
save_dividends(list) ==
    [fs EXCEPT ![DIVIDENDS_FILE] =
        File([i \in 1..Len(list) |-> Dividend_to_dict(list[i])])]

\* load_dividends
load_dividends ==
    IF ~fs[DIVIDENDS_FILE].exists THEN <<>>
    ELSE [i \in 1..Len(fs[DIVIDENDS_FILE].data) |->
            Dividend_from_dict(fs[DIVIDENDS_FILE].data[i])]

\* main() with a loader that opens the data file for appending, so that a
\* missing file is created empty
dividend_start_creating ==
    /\ prog = "dividend"
    /\ UNCHANGED <<simVars, otherVars>>
    /\ pc = "start"
    /\ dividends' = load_dividends
    /\ fs' = IF fs[DIVIDENDS_FILE].exists THEN fs ELSE save_dividends(<<>>)
    /\ pc' = "menu"
    /\ UNCHANGED <<prog, choice, loc, out, rates, events>>

\* main(): the list is loaded before the first menu (line 139)
dividend_start ==
    /\ prog = "dividend"
    /\ UNCHANGED <<simVars, otherVars>>
    /\ pc = "start"
    /\ dividends' = load_dividends
    /\ pc' = "menu"
    /\ UNCHANGED <<prog, choice, loc, out, fs, rates, events>>

\* main(): one pass of the menu loop up to the handler's first prompt
dividend_main ==
    /\ prog = "dividend"
    /\ UNCHANGED <<simVars, otherVars>>
    /\ UNCHANGED <<prog, rates, events>>
    /\ pc = "menu"
    /\ \E c \in {"1", " 2", "3 ", "4", "5", "6", "9"} :
          /\ choice' = Strip(c)
          /\ Strip(c) = "1" => Len(dividends) < MaxRecords
          /\ pc' = CASE Strip(c) = "1" -> "add_ticker"
                     [] Strip(c) = "2" -> "edit_ticker"
                     [] Strip(c) = "3" -> "remove_ticker"
                     [] Strip(c) = "6" -> "exit"
                     [] OTHER -> "menu"
          /\ out' = CASE Strip(c) = "4" ->
                          IF dividends = <<>> THEN "No dividends scheduled."
                          ELSE "Upcoming Dividends:"
                      [] Strip(c) = "5" -> "Total expected dividend income"
                      [] Strip(c) = "6" -> "Goodbye!"
                      [] Strip(c) \in {"1", "2", "3"} -> "Enter ticker"
                      [] OTHER -> "Invalid choice. Please try again."
    /\ UNCHANGED <<loc, fs, dividends>>

\* add_dividend (lines 55-62), then main's save_dividends (line 145)
add_dividend ==
    /\ prog = "dividend"
    /\ UNCHANGED <<simVars, otherVars>>
    /\ UNCHANGED <<prog, choice, rates, events>>
    /\ \/ /\ pc = "add_ticker"
          /\ \E s \in TickerInputs :
                loc' = [ticker |-> Upper(Strip(s))]
          /\ pc' = "add_ex_date"
          /\ UNCHANGED <<out, fs, dividends>>
       \/ /\ pc = "add_ex_date"
          /\ \E s \in DateInputs :
                IF input_date_ok(s)
                THEN /\ loc' = [ticker |-> loc.ticker, ex_date |-> s]
                     /\ pc' = "add_pay_date"
                     /\ out' = "Enter pay date"
                ELSE /\ out' = "Invalid date format. Please use YYYY-MM-DD."
                     /\ UNCHANGED <<loc, pc>>
          /\ UNCHANGED <<fs, dividends>>
       \/ /\ pc = "add_pay_date"
          /\ \E s \in DateInputs :
                IF input_date_ok(s)
                THEN /\ loc' = [ticker |-> loc.ticker, ex_date |-> loc.ex_date,
                                pay_date |-> s]
                     /\ pc' = "add_amount"
                     /\ out' = "Enter dividend amount per share"
                ELSE /\ out' = "Invalid date format. Please use YYYY-MM-DD."
                     /\ UNCHANGED <<loc, pc>>
          /\ UNCHANGED <<fs, dividends>>
       \/ /\ pc = "add_amount"
          /\ \E s \in FloatInputs :
                IF float_ok(s)
                THEN /\ loc' = [ticker |-> loc.ticker, ex_date |-> loc.ex_date,
                                pay_date |-> loc.pay_date, amount |-> float(s)]
                     /\ pc' = "add_shares"
                     /\ out' = "Enter number of shares"
                ELSE /\ pc' = "raised"
                     /\ out' = ValueError
                     /\ loc' = NoLoc
          /\ UNCHANGED <<fs, dividends>>
       \/ /\ pc = "add_shares"
          /\ \E s \in SharesInputs :
                IF float_ok(s)
                THEN /\ dividends' = Append(dividends,
                            Dividend(loc.ticker, loc.ex_date, loc.pay_date,
                                     loc.amount, float(s)))
                     /\ fs' = save_dividends(dividends')
                     /\ pc' = "menu"
                     /\ out' = "Dividends saved"
                ELSE /\ pc' = "raised"
                     /\ out' = ValueError
                     /\ UNCHANGED <<fs, dividends>>
          /\ loc' = NoLoc

\* edit_dividend (lines 72-84), then main's save_dividends (line 148)
edit_dividend ==
    /\ prog = "dividend"
    /\ UNCHANGED <<simVars, otherVars>>
    /\ UNCHANGED <<prog, choice, rates, events>>
    /\ \/ /\ pc = "edit_ticker"
          /\ \E s \in TickerInputs :
                loc' = [ticker |-> Upper(Strip(s))]
          /\ pc' = "edit_ex_date"
          /\ UNCHANGED <<out, fs, dividends>>
       \/ /\ pc = "edit_ex_date"
          /\ \E s \in DateInputs :
                IF input_date_ok(s)
                THEN LET idx == find_dividend(dividends, loc.ticker, s) IN
                     IF idx = -1
                     THEN /\ out' = "Dividend not found."
                          /\ fs' = save_dividends(dividends)
                          /\ pc' = "menu"
                          /\ loc' = NoLoc
                     ELSE /\ out' = "Editing"
                          /\ loc' = [idx |-> idx]
                          /\ pc' = "edit_pay_date"
                          /\ UNCHANGED fs
                ELSE /\ out' = "Invalid date format. Please use YYYY-MM-DD."
                     /\ UNCHANGED <<loc, pc, fs>>
          /\ UNCHANGED dividends
       \/ /\ pc = "edit_pay_date"
          /\ \E s \in DateInputs :
                IF input_date_ok(s)
                THEN /\ dividends' = [dividends EXCEPT ![loc.idx + 1].pay_date = s]
                     /\ pc' = "edit_amount"
                     /\ out' = "Enter new dividend amount per share"
                ELSE /\ out' = "Invalid date format. Please use YYYY-MM-DD."
                     /\ UNCHANGED <<pc, dividends>>
          /\ UNCHANGED <<loc, fs>>
       \/ /\ pc = "edit_amount"
          /\ \E s \in FloatInputs :
                IF float_ok(s)
                THEN /\ dividends' = [dividends EXCEPT ![loc.idx + 1].amount = float(s)]
                     /\ pc' = "edit_shares"
                     /\ out' = "Enter new number of shares"
                     /\ UNCHANGED loc
                ELSE /\ pc' = "raised"
                     /\ out' = ValueError
                     /\ loc' = NoLoc
                     /\ UNCHANGED dividends
          /\ UNCHANGED fs
       \/ /\ pc = "edit_shares"
          /\ \E s \in SharesInputs :
                IF float_ok(s)
                THEN /\ dividends' = [dividends EXCEPT ![loc.idx + 1].shares = float(s)]
                     /\ fs' = save_dividends(dividends')
                     /\ pc' = "menu"
                     /\ out' = "Dividends saved"
                ELSE /\ pc' = "raised"
                     /\ out' = ValueError
                     /\ UNCHANGED <<fs, dividends>>
          /\ loc' = NoLoc

\* remove_dividend (lines 87-95), then main's save_dividends (line 151)
remove_dividend ==
    /\ prog = "dividend"
    /\ UNCHANGED <<simVars, otherVars>>
    /\ UNCHANGED <<prog, choice, rates, events>>
    /\ \/ /\ pc = "remove_ticker"
          /\ \E s \in TickerInputs :
                loc' = [ticker |-> Upper(Strip(s))]
          /\ pc' = "remove_ex_date"
          /\ UNCHANGED <<out, fs, dividends>>
       \/ /\ pc = "remove_ex_date"
          /\ \E s \in DateInputs :
                IF input_date_ok(s)
                THEN LET idx == find_dividend(dividends, loc.ticker, s) IN
                     /\ dividends' = IF idx = -1 THEN dividends
                                     ELSE RemoveAt(dividends, idx + 1)
                     /\ out' = IF idx = -1 THEN "Dividend not found."
                               ELSE "Dividend removed!"
                     /\ fs' = save_dividends(dividends')
                     /\ pc' = "menu"
                     /\ loc' = NoLoc
                ELSE /\ out' = "Invalid date format. Please use YYYY-MM-DD."
                     /\ UNCHANGED <<loc, pc, fs, dividends>>

(***************************************************************************)
(* Currency converter                                                      *)
(***************************************************************************)
RATES_FILE == "rates.json"

\* ExchangeRate.__init__
ExchangeRate(base, quote, rate) ==
    [base |-> Upper(base), quote |-> Upper(quote), rate |-> rate]

\* ExchangeRate.to_dict
ExchangeRate_to_dict(r) ==
    << <<"base", r.base>>, <<"quote", r.quote>>, <<"rate", r.rate>> >>

\* ExchangeRate.from_dict
ExchangeRate_from_dict(d) ==
    ExchangeRate(DictGet(d, "base"), DictGet(d, "quote"), DictGet(d, "rate"))

find_rate(list, base, quote) ==
    FirstIndex([i \in 1..Len(list) |->
        list[i].base = Upper(base) /\ list[i].quote = Upper(quote)])

\* save_rates
save_rates(list) ==
    [fs EXCEPT ![RATES_FILE] =
        File([i \in 1..Len(list) |-> ExchangeRate_to_dict(list[i])])]

\* load_rates
load_rates ==
    IF ~fs[RATES_FILE].exists THEN <<>>
    ELSE [i \in 1..Len(fs[RATES_FILE].data) |->
            ExchangeRate_from_dict(fs[RATES_FILE].data[i])]

\* main(): the list is loaded before the first menu (line 126)
currency_start ==
    /\ prog = "currency"
    /\ UNCHANGED <<simVars, otherVars>>
    /\ pc = "start"
    /\ rates' = load_rates
    /\ pc' = "menu"
    /\ UNCHANGED <<prog, choice, loc, out, fs, dividends, events>>

\* main(): one pass of the menu loop up to the handler's first prompt
currency_main ==
    /\ prog = "currency"
    /\ UNCHANGED <<simVars, otherVars>>
    /\ UNCHANGED <<prog, dividends, events>>
    /\ pc = "menu"
    /\ \E c \in {"1", " 2", "3 ", "4", "5", "6", "9"} :
          /\ choice' = Strip(c)
          /\ Strip(c) = "1" => Len(rates) < MaxRecords
          /\ pc' = CASE Strip(c) = "1" -> "add_base"
                     [] Strip(c) = "2" -> "edit_base"
                     [] Strip(c) = "3" -> "remove_base"
                     [] Strip(c) = "4" -> "convert_base"
                     [] Strip(c) = "6" -> "exit"
                     [] OTHER -> "menu"
          /\ out' = CASE Strip(c) = "5" ->
                          IF rates = <<>> THEN "No rates stored."
                          ELSE "Stored Exchange Rates:"
                      [] Strip(c) = "6" -> "Goodbye!"
                      [] Strip(c) \in {"1", "2", "3", "4"} -> "Enter base currency"
                      [] OTHER -> "Invalid choice. Please try again."
    /\ UNCHANGED <<loc, fs, rates>>

\* add_rate (lines 39-44), then main's save_rates (line 132)
add_rate ==
    /\ prog = "currency"
    /\ UNCHANGED <<simVars, otherVars>>
    /\ UNCHANGED <<prog, choice, dividends, events>>
    /\ \/ /\ pc = "add_base"
          /\ \E s \in CurrencyInputs : loc' = [base |-> Upper(Strip(s))]
          /\ pc' = "add_quote"
          /\ UNCHANGED <<out, fs, rates>>
       \/ /\ pc = "add_quote"
          /\ \E s \in CurrencyInputs :
                loc' = [base |-> loc.base, quote |-> Upper(Strip(s))]
          /\ pc' = "add_rate"
          /\ UNCHANGED <<out, fs, rates>>
       \/ /\ pc = "add_rate"
          /\ \E s \in FloatInputs :
                IF float_ok(s)
                THEN /\ rates' = Append(rates,
                                        ExchangeRate(loc.base, loc.quote, float(s)))
                     /\ fs' = save_rates(rates')
                     /\ pc' = "menu"
                     /\ out' = "Rates saved"
                ELSE /\ pc' = "raised"
                     /\ out' = ValueError
                     /\ UNCHANGED <<fs, rates>>
          /\ loc' = NoLoc

\* edit_rate (lines 54-63), then main's save_rates (line 135)
edit_rate ==
    /\ prog = "currency"
    /\ UNCHANGED <<simVars, otherVars>>
    /\ UNCHANGED <<prog, choice, dividends, events>>
    /\ \/ /\ pc = "edit_base"
          /\ \E s \in CurrencyInputs : loc' = [base |-> Upper(Strip(s))]
          /\ pc' = "edit_quote"
          /\ UNCHANGED <<out, fs, rates>>
       \/ /\ pc = "edit_quote"
          /\ \E s \in CurrencyInputs :
                LET idx == find_rate(rates, loc.base, Upper(Strip(s))) IN
                IF idx = -1
                THEN /\ out' = "Rate not found."
                     /\ fs' = save_rates(rates)
                     /\ pc' = "menu"
                     /\ loc' = NoLoc
                ELSE /\ out' = "Enter new exchange rate"
                     /\ loc' = [idx |-> idx]
                     /\ pc' = "edit_rate"
                     /\ UNCHANGED fs
          /\ UNCHANGED rates
       \/ /\ pc = "edit_rate"
          /\ \E s \in FloatInputs :
                IF float_ok(s)
                THEN /\ rates' = [rates EXCEPT ![loc.idx + 1].rate = float(s)]
                     /\ fs' = save_rates(rates')
                     /\ pc' = "menu"
                     /\ out' = "Rates saved"
                ELSE /\ pc' = "raised"
                     /\ out' = ValueError
                     /\ UNCHANGED <<fs, rates>>
          /\ loc' = NoLoc

\* remove_rate (lines 66-74), then main's save_rates (line 138)
remove_rate ==
    /\ prog = "currency"
    /\ UNCHANGED <<simVars, otherVars>>
    /\ UNCHANGED <<prog, choice, dividends, events>>
    /\ \/ /\ pc = "remove_base"
          /\ \E s \in CurrencyInputs : loc' = [base |-> Upper(Strip(s))]
          /\ pc' = "remove_quote"
          /\ UNCHANGED <<out, fs, rates>>
       \/ /\ pc = "remove_quote"
          /\ \E s \in CurrencyInputs :
                LET idx == find_rate(rates, loc.base, Upper(Strip(s))) IN
                /\ rates' = IF idx = -1 THEN rates ELSE RemoveAt(rates, idx + 1)
                /\ out' = IF idx = -1 THEN "Rate not found." ELSE "Rate removed!"
                /\ fs' = save_rates(rates')
          /\ pc' = "menu"
          /\ loc' = NoLoc

\* convert_currency (lines 77-87); main does not save after it
convert_currency ==
    /\ prog = "currency"
    /\ UNCHANGED <<simVars, otherVars>>
    /\ UNCHANGED <<prog, choice, fs, rates, dividends, events>>
    /\ \/ /\ pc = "convert_base"
          /\ \E s \in CurrencyInputs : loc' = [base |-> Upper(Strip(s))]
          /\ pc' = "convert_quote"
          /\ UNCHANGED out
       \/ /\ pc = "convert_quote"
          /\ \E s \in CurrencyInputs :
                LET idx == find_rate(rates, loc.base, Upper(Strip(s))) IN
                IF idx = -1
                THEN /\ out' = "Rate not found. Please add it first."
                     /\ pc' = "menu"
                     /\ loc' = NoLoc
                ELSE /\ out' = "Enter amount"
                     /\ loc' = [idx |-> idx]
                     /\ pc' = "convert_amount"
       \/ /\ pc = "convert_amount"
          /\ \E s \in FloatInputs :
                IF float_ok(s)
                THEN /\ pc' = "menu"
                     /\ out' = "converted"
                ELSE /\ pc' = "raised"
                     /\ out' = ValueError
          /\ loc' = NoLoc

(***************************************************************************)
(* Economic calendar                                                       *)
(***************************************************************************)
EVENTS_FILE == "events.json"
default_impact_levels == {"Low", "Medium", "High"}

\* EconomicEvent.__init__
EconomicEvent(date, event_type, description, impact) ==
    [date |-> date, event_type |-> event_type, description |-> description,
     impact |-> impact]

\* EconomicEvent.to_dict
EconomicEvent_to_dict(e) ==
    << <<"date", e.date>>, <<"event_type", e.event_type>>,
       <<"description", e.description>>, <<"impact", e.impact>> >>

\* EconomicEvent.from_dict
EconomicEvent_from_dict(d) ==
    EconomicEvent(DictGet(d, "date"), DictGet(d, "event_type"),
                  DictGet(d, "description"), DictGet(d, "impact"))

find_event(list, date, event_type) ==
    FirstIndex([i \in 1..Len(list) |->
        list[i].date = date /\ Lower(list[i].event_type) = Lower(event_type)])

\* save_events
save_events(list) ==
    [fs EXCEPT ![EVENTS_FILE] =
        File([i \in 1..Len(list) |-> EconomicEvent_to_dict(list[i])])]

\* load_events
load_events ==
    IF ~fs[EVENTS_FILE].exists THEN <<>>
    ELSE [i \in 1..Len(fs[EVENTS_FILE].data) |->
            EconomicEvent_from_dict(fs[EVENTS_FILE].data[i])]

\* main(): the list is loaded before the first menu (line 160)
calendar_start ==
    /\ prog = "calendar"
    /\ UNCHANGED <<simVars, otherVars>>
    /\ pc = "start"
    /\ events' = load_events
    /\ pc' = "menu"
    /\ UNCHANGED <<prog, choice, loc, out, fs, dividends, rates>>

\* main(): one pass of the menu loop up to the handler's first prompt
calendar_main ==
    /\ prog = "calendar"
    /\ UNCHANGED <<simVars, otherVars>>
    /\ UNCHANGED <<prog, dividends, rates>>
    /\ pc = "menu"
    /\ \E c \in {"1", " 2", "3 ", "4", "5", "6", "9"} :
          /\ choice' = Strip(c)
          /\ Strip(c) = "1" => Len(events) < MaxRecords
          /\ pc' = CASE Strip(c) = "1" -> "add_date"
                     [] Strip(c) = "2" -> "edit_date"
                     [] Strip(c) = "3" -> "remove_date"
                     [] Strip(c) = "5" -> "simulate_date"
                     [] Strip(c) = "6" -> "exit"
                     [] OTHER -> "menu"
          /\ out' = CASE Strip(c) = "4" ->
                          IF events = <<>> THEN "No events scheduled."
                          ELSE "Upcoming Economic Events:"
                      [] Strip(c) = "6" -> "Goodbye!"
                      [] Strip(c) \in {"1", "2", "3", "5"} -> "Enter event date"
                      [] OTHER -> "Invalid choice. Please try again."
    /\ UNCHANGED <<loc, fs, events>>

\* add_event (lines 53-62), then main's save_events (line 166)
add_event ==
    /\ prog = "calendar"
    /\ UNCHANGED <<simVars, otherVars>>
    /\ UNCHANGED <<prog, choice, dividends, rates>>
    /\ \/ /\ pc = "add_date"
          /\ \E s \in DateInputs :
                IF strptime_ok(s)
                THEN /\ loc' = [date |-> s]
                     /\ pc' = "add_type"
                     /\ out' = "Enter event type"
                ELSE /\ out' = "Invalid date format. Please use YYYY-MM-DD."
                     /\ UNCHANGED <<loc, pc>>
          /\ UNCHANGED <<fs, events>>
       \/ /\ pc = "add_type"
          /\ \E s \in EventTypeInputs :
                loc' = [date |-> loc.date, event_type |-> s]
          /\ pc' = "add_description"
          /\ UNCHANGED <<out, fs, events>>
       \/ /\ pc = "add_description"
          /\ \E s \in DescriptionInputs :
                loc' = [date |-> loc.date, event_type |-> loc.event_type,
                        description |-> s]
          /\ pc' = "add_impact"
          /\ UNCHANGED <<out, fs, events>>
       \/ /\ pc = "add_impact"
          /\ \E s \in ImpactInputs :
                LET impact == IF s \notin default_impact_levels THEN "Medium" ELSE s
                IN  /\ events' = Append(events,
                            EconomicEvent(loc.date, loc.event_type,
                                          loc.description, impact))
                    /\ fs' = save_events(events')
          /\ pc' = "menu"
          /\ out' = "Events saved"
          /\ loc' = NoLoc

\* edit_event (lines 72-85), then main's save_events (line 169)
edit_event ==
    /\ prog = "calendar"
    /\ UNCHANGED <<simVars, otherVars>>
    /\ UNCHANGED <<prog, choice, dividends, rates>>
    /\ \/ /\ pc = "edit_date"
          /\ \E s \in DateInputs :
                IF strptime_ok(s)
                THEN /\ loc' = [date |-> s]
                     /\ pc' = "edit_type"
                     /\ out' = "Enter event type to edit"
                ELSE /\ out' = "Invalid date format. Please use YYYY-MM-DD."
                     /\ UNCHANGED <<loc, pc>>
          /\ UNCHANGED <<fs, events>>
       \/ /\ pc = "edit_type"
          /\ \E s \in EventTypeInputs :
                LET idx == find_event(events, loc.date, s) IN
                IF idx = -1
                THEN /\ out' = "Event not found."
                     /\ fs' = save_events(events)
                     /\ pc' = "menu"
                     /\ loc' = NoLoc
                ELSE /\ out' = "Editing"
                     /\ loc' = [idx |-> idx]
                     /\ pc' = "edit_description"
                     /\ UNCHANGED fs
          /\ UNCHANGED events
       \/ /\ pc = "edit_description"
          /\ \E s \in DescriptionInputs :
                events' = [events EXCEPT ![loc.idx + 1].description = s]
          /\ pc' = "edit_impact"
          /\ UNCHANGED <<loc, out, fs>>
       \/ /\ pc = "edit_impact"
          /\ \E s \in ImpactInputs :
                /\ events' = IF s \in default_impact_levels
                             THEN [events EXCEPT ![loc.idx + 1].impact = s]
                             ELSE events
                /\ fs' = save_events(events')
          /\ pc' = "menu"
          /\ out' = "Events saved"
          /\ loc' = NoLoc

\* remove_event (lines 88-96), then main's save_events (line 172)
remove_event ==
    /\ prog = "calendar"
    /\ UNCHANGED <<simVars, otherVars>>
    /\ UNCHANGED <<prog, choice, dividends, rates>>
    /\ \/ /\ pc = "remove_date"
          /\ \E s \in DateInputs :
                IF strptime_ok(s)
                THEN /\ loc' = [date |-> s]
                     /\ pc' = "remove_type"
                     /\ out' = "Enter event type to remove"
                ELSE /\ out' = "Invalid date format. Please use YYYY-MM-DD."
                     /\ UNCHANGED <<loc, pc>>
          /\ UNCHANGED <<fs, events>>
       \/ /\ pc = "remove_type"
          /\ \E s \in EventTypeInputs :
                LET idx == find_event(events, loc.date, s) IN
                /\ events' = IF idx = -1 THEN events ELSE RemoveAt(events, idx + 1)
                /\ out' = IF idx = -1 THEN "Event not found." ELSE "Event removed!"
                /\ fs' = save_events(events')
          /\ pc' = "menu"
          /\ loc' = NoLoc

\* simulate_event_impact (lines 108-130); main does not save after it
simulate_event_impact ==
    /\ prog = "calendar"
    /\ UNCHANGED <<simVars, otherVars>>
    /\ UNCHANGED <<prog, choice, fs, events, dividends, rates>>
    /\ \/ /\ pc = "simulate_date"
          /\ \E s \in DateInputs :
                IF strptime_ok(s)
                THEN /\ loc' = [date |-> s]
                     /\ pc' = "simulate_type"
                     /\ out' = "Enter event type to simulate"
                ELSE /\ out' = "Invalid date format. Please use YYYY-MM-DD."
                     /\ UNCHANGED <<loc, pc>>
       \/ /\ pc = "simulate_type"
          /\ \E s \in EventTypeInputs :
                LET idx == find_event(events, loc.date, s) IN
                IF idx = -1
                THEN /\ out' = "Event not found."
                     /\ pc' = "menu"
                     /\ loc' = NoLoc
                ELSE /\ out' = "Simulating impact"
                     /\ loc' = [idx |-> idx]
                     /\ pc' = "simulate_value"
       \/ /\ pc = "simulate_value"
          /\ \E s \in FloatInputs :
                IF float_ok(s)
                THEN /\ pc' = "simulate_direction"
                     /\ out' = "Did the event have a positive or negative impact?"
                     /\ UNCHANGED loc
                ELSE /\ pc' = "raised"
                     /\ out' = ValueError
                     /\ loc' = NoLoc
       \/ /\ pc = "simulate_direction"
          /\ \E s \in {"+", "-"} : out' = "Your portfolio changed"
          /\ pc' = "menu"
          /\ loc' = NoLoc

(***************************************************************************)
(* The CRUD programs' specification                                         *)
(***************************************************************************)
FileNames == {DIVIDENDS_FILE, RATES_FILE, EVENTS_FILE}

\* the launcher is not running
LauncherIdle ==
    /\ launcher_pc = "off"
    /\ launcher_i = 0
    /\ running = ""
    /\ batch = <<>>
    /\ launched = <<>>

\* finnhub.py is not running
FinnhubIdle ==
    /\ fh_pc = "off"
    /\ fh_wst = "none"
    /\ fh_sock = "none"
    /\ fh_elapsed = 0
    /\ fh_sent = <<>>
    /\ fh_threads = 0

\* no YFLiveWebSocket has been constructed
YFIdle ==
    /\ yf_reconnect = FALSE
    /\ yf_custom_on_open = FALSE
    /\ yf_keep_running = FALSE
    /\ yf_ws = 0
    /\ yf_conn = "none"
    /\ yf_thread = "none"
    /\ yf_worker = "off"
    /\ yf_caller = "off"
    /\ yf_calls = 0
    /\ yf_join_left = 0
    /\ yf_sleep_left = 0
    /\ yf_since_close = -1
    /\ yf_sent = 0
    /\ yf_attempts = 0
    /\ yf_disconnected = FALSE
    /\ yf_threads = 0
    /\ yf_call = ""

\* logger.py, technical_indicators.py and options_chain_simulator.py are not running
ToolsIdle ==
    /\ log_call = NoLoc
    /\ log_ret = NoLoc
    /\ log_calls = 0
    /\ ti_prices = <<>>
    /\ ti_vals = <<>>
    /\ oc_params = NoLoc
    /\ oc_strikes = <<>>
    /\ oc_rows = <<>>

\* the data file a program itself can have left behind in an earlier session
DataFiles(p) ==
    {Missing} \cup
    CASE p = "dividend" ->
            { File([i \in 1..Len(l) |-> Dividend_to_dict(l[i])]) :
                l \in SeqsUpTo({Dividend("AAPL", "2024-01-15", "2024-03-01", 3, 10),
                                Dividend("MSFT", "2024-01-15", "2024-03-01", 3, 10)}, 1) }
      [] p = "currency" ->
            { File([i \in 1..Len(l) |-> ExchangeRate_to_dict(l[i])]) :
                l \in SeqsUpTo({ExchangeRate("USD", "EUR", 3),
                                ExchangeRate("EUR", "USD", 10)}, 1) }
      [] p = "calendar" ->
            { File([i \in 1..Len(l) |-> EconomicEvent_to_dict(l[i])]) :
                l \in SeqsUpTo({EconomicEvent("2024-01-15", "CPI", "first print", "High"),
                                EconomicEvent("2024-03-01", "cpi", "revised", "Low")}, 1) }

DataFileOf(p) ==
    CASE p = "dividend" -> DIVIDENDS_FILE
      [] p = "currency" -> RATES_FILE
      [] p = "calendar" -> EVENTS_FILE

Init ==
    /\ prog \in {"dividend", "currency", "calendar"}
    /\ pc = "start"
    /\ choice = NoChoice
    /\ loc = NoLoc
    /\ out = ""
    /\ \E f \in DataFiles(prog) :
          fs = [n \in FileNames |-> IF n = DataFileOf(prog) THEN f ELSE Missing]
    /\ dividends = <<>>
    /\ rates = <<>>
    /\ events = <<>>
    /\ portfolio = NoLoc
    /\ tracker_portfolio = <<>>
    /\ menus = 0
    /\ LauncherIdle
    /\ ToolsIdle
    /\ FinnhubIdle
    /\ YFIdle

Next ==
    \/ dividend_start
    \/ dividend_main
    \/ add_dividend
    \/ edit_dividend
    \/ remove_dividend
    \/ currency_start
    \/ currency_main
    \/ add_rate
    \/ edit_rate
    \/ remove_rate
    \/ convert_currency
    \/ calendar_start
    \/ calendar_main
    \/ add_event
    \/ edit_event
    \/ remove_event
    \/ simulate_event_impact

Spec == Init /\ [][Next]_vars

(***************************************************************************)
(* Properties of the CRUD programs                                         *)
(***************************************************************************)
\* the running program's in-memory list, as the JSON document save_* writes
RecordsAsJson ==
    CASE prog = "dividend" ->
            [i \in 1..Len(dividends) |-> Dividend_to_dict(dividends[i])]
      [] prog = "currency" ->
            [i \in 1..Len(rates) |-> ExchangeRate_to_dict(rates[i])]
      [] prog = "calendar" ->
            [i \in 1..Len(events) |-> EconomicEvent_to_dict(events[i])]

DataFile == fs[DataFileOf(prog)]

\* C1: whenever the main menu is displayed, the data file (a missing file
\* counting as an empty list) holds exactly the records of the in-memory
\* list, in the same order; and once an add, edit or remove choice has been
\* handled (also one that ended with 'not found') the file has been written.
C1_MenuFileMatchesList ==
    pc = "menu" =>
        /\ DataFile.data = RecordsAsJson
        /\ choice \in {"1", "2", "3"} => DataFile.exists

\* a menu shown after an edit that ended with 'not found' on a list of two
C1_Witness ==
    /\ pc = "menu"
    /\ choice = "2"
    /\ out \in {"Dividend not found.", "Rate not found.", "Event not found."}
    /\ Len(RecordsAsJson) = 2

\* C2 (as claimed): a line typed at a date or number prompt of an add or edit
\* operation never raises: the program stays at a prompt or returns to the
\* menu, and a rejected line leaves the list and the file as they were.
NumberOrDatePrompts ==
    {"add_ex_date", "add_pay_date", "add_amount", "add_shares",
     "edit_ex_date", "edit_pay_date", "edit_amount", "edit_shares",
     "add_rate", "edit_rate", "add_date", "edit_date"}

PromptNeverRaises ==
    pc \in NumberOrDatePrompts =>
        /\ pc' # "raised"
        /\ pc' = pc => UNCHANGED <<fs, dividends, rates, events>>

C2_InvalidEntryReprompts == [][PromptNeverRaises]_vars

\* C3: with the data file missing, the loader returns an empty list, raises
\* nothing and creates no file; the file first appears when an add, edit or
\* remove choice returns to the menu.
MissingFileStep ==
    /\ (pc = "start" /\ ~DataFile.exists) =>
            /\ pc' = "menu"
            /\ RecordsAsJson' = <<>>
            /\ fs' = fs
    /\ (~DataFile.exists /\ DataFile'.exists) =>
            /\ choice \in {"1", "2", "3"}
            /\ pc' = "menu"

C3_MissingFileIsEmptyList == [][MissingFileStep]_vars

\* a session that started without a data file, has handled a view choice and
\* still has neither records nor a file
C3_Witness ==
    /\ pc = "menu"
    /\ choice = "4"
    /\ ~DataFile.exists
    /\ RecordsAsJson = <<>>

(***************************************************************************)
(* Order execution simulator                                               *)
(***************************************************************************)
SideInputs == {"BUY", "Sell", "hold"}
AssetInputs == {"aapl", " msft "}
QtyInputs == {"1", "-1", "abc"}
OrderTypeInputs == {"market", "LIMIT", "stop"}
PriceInputs == {"3", "6000", ""}
FileNameInputs == {" ", " mine.json"}

\* Python dicts: functions from the set of their keys
EmptyDict == [k \in {} |-> 0]
DictGetOr(d, k, default) == IF k \in DOMAIN d THEN d[k] ELSE default
DictSet(d, k, v) == [a \in DOMAIN d \cup {k} |-> IF a = k THEN v ELSE d[a]]

\* the <<key, value>> pairs json.dump writes for a dict
RECURSIVE DictItems(_)
DictItems(d) ==
    IF DOMAIN d = {} THEN <<>>
    ELSE LET k == CHOOSE x \in DOMAIN d : TRUE IN
         <<<<k, d[k]>>>> \o DictItems([a \in DOMAIN d \ {k} |-> d[a]])

\* the dict json.load builds from the pairs of a JSON object
DictOfItems(items) ==
    [k \in {items[i][1] : i \in 1..Len(items)} |-> DictGet(items, k)]

\* average costs are quotients: n/d in lowest terms
RECURSIVE Gcd(_, _)
Gcd(a, b) == IF b = 0 THEN a ELSE Gcd(b, a % b)
Rat(n, d) == LET g == Gcd(n, d) IN [n |-> n \div g, d |-> d \div g]
Zero == [n |-> 0, d |-> 1]

\* Trade.__init__
Trade(asset, qty, price, side, order_type) ==
    [asset |-> asset, qty |-> qty, price |-> price, side |-> side,
     order_type |-> order_type]

\* Trade.to_dict
Trade_to_dict(t) ==
    << <<"asset", t.asset>>, <<"qty", t.qty>>, <<"price", t.price>>,
       <<"side", t.side>>, <<"order_type", t.order_type>> >>

\* Trade.from_dict with qty and price passed in the wrong order
Trade_from_dict_swapped(d) ==
    Trade(DictGet(d, "asset"), DictGet(d, "price"), DictGet(d, "qty"),
          DictGet(d, "side"), DictGet(d, "order_type"))

\* Trade.from_dict
Trade_from_dict(d) ==
    Trade(DictGet(d, "asset"), DictGet(d, "qty"), DictGet(d, "price"),
          DictGet(d, "side"), DictGet(d, "order_type"))

INITIAL_CASH == 10000

\* Portfolio.__init__
Portfolio(cash) ==
    [cash |-> cash, holdings |-> EmptyDict, trades |-> <<>>,
     avg_cost |-> EmptyDict]

\* Portfolio.execute_order: the value it returns
execute_order_ok(p, asset, qty, price, side) ==
    IF side = "buy" THEN ~(p.cash < qty * price)
    ELSE ~(DictGetOr(p.holdings, asset, 0) < qty)

\* Portfolio.execute_order: whether self.holdings[asset] -= qty raises KeyError
execute_order_raises(p, asset, qty, price, side) ==
    /\ side # "buy"
    /\ execute_order_ok(p, asset, qty, price, side)
    /\ asset \notin DOMAIN p.holdings

\* Portfolio.execute_order: the portfolio it leaves
execute_order(p, asset, qty, price, side, order_type) ==
    IF ~execute_order_ok(p, asset, qty, price, side) THEN p
    ELSE IF execute_order_raises(p, asset, qty, price, side)
    THEN [p EXCEPT !.cash = p.cash + qty * price]
    ELSE IF side = "buy"
    THEN LET cost == qty * price
             held == DictGetOr(p.holdings, asset, 0) + qty
             prev_qty == held - qty
             prev == DictGetOr(p.avg_cost, asset, Zero)
             \* prev_cost + cost, over the denominator of prev
             total == [n |-> prev.n * prev_qty + cost * prev.d, d |-> prev.d]
         IN  [cash |-> p.cash - cost,
              holdings |-> DictSet(p.holdings, asset, held),
              avg_cost |-> DictSet(p.avg_cost, asset,
                              IF prev_qty + qty > 0
                              THEN Rat(total.n, total.d * (prev_qty + qty))
                              ELSE Rat(price, 1)),
              trades |-> Append(p.trades,
                                Trade(asset, qty, price, side, order_type))]
    ELSE LET held == p.holdings[asset] - qty IN
         [cash |-> p.cash + qty * price,
          holdings |-> DictSet(p.holdings, asset, held),
          avg_cost |-> IF held = 0 THEN DictSet(p.avg_cost, asset, Zero)
                       ELSE p.avg_cost,
          trades |-> Append(p.trades,
                            Trade(asset, qty, price, side, order_type))]

\* Portfolio.to_dict
Portfolio_to_dict(p) ==
    << <<"cash", p.cash>>,
       <<"holdings", DictItems(p.holdings)>>,
       <<"avg_cost", DictItems(p.avg_cost)>>,
       <<"trades", [i \in 1..Len(p.trades) |-> Trade_to_dict(p.trades[i])]>> >>

\* Portfolio.from_dict
Portfolio_from_dict(d) ==
    [cash |-> DictGet(d, "cash"),
     holdings |-> DictOfItems(DictGet(d, "holdings")),
     avg_cost |-> IF \E i \in 1..Len(d) : d[i][1] = "avg_cost"
                  THEN DictOfItems(DictGet(d, "avg_cost"))
                  ELSE EmptyDict,
     trades |-> [i \in 1..Len(DictGet(d, "trades")) |->
                    Trade_from_dict(DictGet(d, "trades")[i])]]

SIM_DEFAULT_FILE == "sim_portfolio.json"

\* input(...).strip() or 'sim_portfolio.json'
SimFileName(s) == IF Strip(s) = "" THEN SIM_DEFAULT_FILE ELSE Strip(s)

\* the assets portfolio_value asks a price for
RECURSIVE HeldAssets(_)
HeldAssets(h) ==
    IF DOMAIN h = {} THEN <<>>
    ELSE LET k == CHOOSE x \in DOMAIN h : TRUE
             rest == HeldAssets([a \in DOMAIN h \ {k} |-> h[a]])
         IN  IF h[k] > 0 THEN <<k>> \o rest ELSE rest

\* main(): Portfolio() and the first print_menu (lines 173-175)
order_start ==
    /\ prog = "order"
    /\ pc = "start"
    /\ portfolio' = Portfolio(INITIAL_CASH)
    /\ menus' = 1
    /\ pc' = "menu"
    /\ UNCHANGED <<prog, choice, loc, out, fs, tracker_portfolio>>
    /\ UNCHANGED <<crudVars, otherVars>>

\* main() with the exit branch testing '7', the portfolio tracker's exit
\* choice
order_main_exit7 ==
    /\ prog = "order"
    /\ pc = "menu"
    /\ \E c \in {"1", " 2", "3 ", "4", "5", "6", "7"} :
          /\ choice' = Strip(c)
          /\ Strip(c) # "6" => menus < MaxMenus
          /\ pc' = CASE Strip(c) = "1" -> "order_side"
                     [] Strip(c) = "2" ->
                            IF HeldAssets(portfolio.holdings) = <<>>
                            THEN "menu" ELSE "view_price"
                     [] Strip(c) = "4" -> "save_name"
                     [] Strip(c) = "5" -> "load_name"
                     [] Strip(c) = "7" -> "exit"
                     [] OTHER -> "menu"
          /\ loc' = IF Strip(c) = "2" /\ HeldAssets(portfolio.holdings) # <<>>
                    THEN [pending |-> HeldAssets(portfolio.holdings)]
                    ELSE NoLoc
          /\ out' = CASE Strip(c) = "1" -> "Order type (buy/sell)"
                      [] Strip(c) = "2" -> "Cash balance"
                      [] Strip(c) = "3" -> "Trade History:"
                      [] Strip(c) = "4" -> "Enter filename to save"
                      [] Strip(c) = "5" -> "Enter filename to load"
                      [] Strip(c) = "7" -> "Goodbye!"
                      [] OTHER -> "Invalid choice. Please try again."
          /\ menus' = IF pc' = "menu" THEN menus + 1 ELSE menus
    /\ UNCHANGED <<prog, fs, portfolio, tracker_portfolio>>
    /\ UNCHANGED <<crudVars, otherVars>>

\* main(): one pass of the menu loop (lines 176-191) up to the handler's
\* first prompt; view_trades (choice 3) prints and returns
order_main ==
    /\ prog = "order"
    /\ pc = "menu"
    /\ \E c \in {"1", " 2", "3 ", "4", "5", "6", "7"} :
          /\ choice' = Strip(c)
          /\ Strip(c) # "6" => menus < MaxMenus
          /\ pc' = CASE Strip(c) = "1" -> "order_side"
                     [] Strip(c) = "2" ->
                            IF HeldAssets(portfolio.holdings) = <<>>
                            THEN "menu" ELSE "view_price"
                     [] Strip(c) = "4" -> "save_name"
                     [] Strip(c) = "5" -> "load_name"
                     [] Strip(c) = "6" -> "exit"
                     [] OTHER -> "menu"
          /\ loc' = IF Strip(c) = "2" /\ HeldAssets(portfolio.holdings) # <<>>
                    THEN [pending |-> HeldAssets(portfolio.holdings)]
                    ELSE NoLoc
          /\ out' = CASE Strip(c) = "1" -> "Order type (buy/sell)"
                      [] Strip(c) = "2" -> "Cash balance"
                      [] Strip(c) = "3" -> "Trade History:"
                      [] Strip(c) = "4" -> "Enter filename to save"
                      [] Strip(c) = "5" -> "Enter filename to load"
                      [] Strip(c) = "6" -> "Goodbye!"
                      [] OTHER -> "Invalid choice. Please try again."
          /\ menus' = IF pc' = "menu" THEN menus + 1 ELSE menus
    /\ UNCHANGED <<prog, fs, portfolio, tracker_portfolio>>
    /\ UNCHANGED <<crudVars, otherVars>>

\* place_order (lines 114-126)
place_order ==
    /\ prog = "order"
    /\ UNCHANGED <<prog, choice, fs, tracker_portfolio>>
    /\ UNCHANGED <<crudVars, otherVars>>
    /\ \/ /\ pc = "order_side"
          /\ \E s \in SideInputs :
                IF Lower(Strip(s)) \notin {"buy", "sell"}
                THEN /\ out' = "Invalid side."
                     /\ pc' = "menu"
                     /\ menus' = menus + 1
                     /\ loc' = NoLoc
                ELSE /\ out' = "Asset"
                     /\ pc' = "order_asset"
                     /\ loc' = [side |-> Lower(Strip(s))]
                     /\ UNCHANGED menus
          /\ UNCHANGED portfolio
       \/ /\ pc = "order_asset"
          /\ \E s \in AssetInputs :
                loc' = [side |-> loc.side, asset |-> Upper(Strip(s))]
          /\ pc' = "order_qty"
          /\ out' = "Quantity"
          /\ UNCHANGED <<portfolio, menus>>
       \/ /\ pc = "order_qty"
          /\ \E s \in QtyInputs :
                IF float_ok(s)
                THEN /\ loc' = [side |-> loc.side, asset |-> loc.asset,
                                qty |-> float(s)]
                     /\ pc' = "order_type"
                     /\ out' = "Order type (market/limit)"
                ELSE /\ out' = "Invalid input. Please enter a number."
                     /\ UNCHANGED <<loc, pc>>
          /\ UNCHANGED <<portfolio, menus>>
       \/ /\ pc = "order_type"
          /\ \E s \in OrderTypeInputs :
                IF Lower(Strip(s)) \notin {"market", "limit"}
                THEN /\ out' = "Invalid order type."
                     /\ pc' = "menu"
                     /\ menus' = menus + 1
                     /\ loc' = NoLoc
                ELSE /\ out' = "Price"
                     /\ pc' = "order_price"
                     /\ loc' = [side |-> loc.side, asset |-> loc.asset,
                                qty |-> loc.qty, order_type |-> Lower(Strip(s))]
                     /\ UNCHANGED menus
          /\ UNCHANGED portfolio
       \/ /\ pc = "order_price"
          /\ \E s \in PriceInputs :
                IF float_ok(s)
                THEN /\ portfolio' = execute_order(portfolio, loc.asset, loc.qty,
                                        float(s), loc.side, loc.order_type)
                     /\ IF execute_order_raises(portfolio, loc.asset, loc.qty,
                                                float(s), loc.side)
                        THEN /\ out' = "KeyError"
                             /\ pc' = "raised"
                             /\ UNCHANGED menus
                        ELSE /\ out' = IF execute_order_ok(portfolio, loc.asset,
                                                           loc.qty, float(s), loc.side)
                                       THEN "Order executed! Portfolio updated."
                                       ELSE IF loc.side = "buy"
                                       THEN "Not enough cash."
                                       ELSE "Not enough holdings to sell."
                             /\ pc' = "menu"
                             /\ menus' = menus + 1
                     /\ loc' = NoLoc
                ELSE /\ out' = "Invalid input. Please enter a number."
                     /\ UNCHANGED <<loc, pc, portfolio, menus>>

\* view_portfolio (lines 129-136): portfolio_value asks one price per asset
\* held, each through input_float
view_portfolio ==
    /\ prog = "order"
    /\ pc = "view_price"
    /\ \E s \in PriceInputs :
          IF float_ok(s)
          THEN IF Len(loc.pending) = 1
               THEN /\ pc' = "menu"
                    /\ menus' = menus + 1
                    /\ loc' = NoLoc
                    /\ out' = "Total Portfolio Value"
               ELSE /\ loc' = [pending |-> Tail(loc.pending)]
                    /\ out' = "Enter current price"
                    /\ UNCHANGED <<pc, menus>>
          ELSE /\ out' = "Invalid input. Please enter a number."
               /\ UNCHANGED <<loc, pc, menus>>
    /\ UNCHANGED <<prog, choice, fs, portfolio, tracker_portfolio>>
    /\ UNCHANGED <<crudVars, otherVars>>

\* save (lines 146-150)
save ==
    /\ prog = "order"
    /\ pc = "save_name"
    /\ \E s \in FileNameInputs :
          fs' = [fs EXCEPT ![SimFileName(s)] = File(Portfolio_to_dict(portfolio))]
    /\ out' = "Saved"
    /\ pc' = "menu"
    /\ menus' = menus + 1
    /\ UNCHANGED <<prog, choice, loc, portfolio, tracker_portfolio>>
    /\ UNCHANGED <<crudVars, otherVars>>

\* load (lines 153-161) and main's assignment of its result (line 186)
load ==
    /\ prog = "order"
    /\ pc = "load_name"
    /\ \E s \in FileNameInputs :
          IF ~fs[SimFileName(s)].exists
          THEN /\ out' = "File not found."
               /\ portfolio' = Portfolio(INITIAL_CASH)
          ELSE /\ out' = "Loaded"
               /\ portfolio' = Portfolio_from_dict(fs[SimFileName(s)].data)
    /\ pc' = "menu"
    /\ menus' = menus + 1
    /\ UNCHANGED <<prog, choice, loc, fs, tracker_portfolio>>
    /\ UNCHANGED <<crudVars, otherVars>>

(***************************************************************************)
(* Portfolio tracker                                                       *)
(***************************************************************************)
PORTFOLIO_FILE == "portfolio.json"

\* Holding.__init__
Holding(name, quantity, avg_cost) ==
    [name |-> Upper(name), quantity |-> quantity, avg_cost |-> avg_cost]

\* Holding.to_dict
Holding_to_dict(h) ==
    << <<"name", h.name>>, <<"quantity", h.quantity>>,
       <<"avg_cost", h.avg_cost>> >>

\* Holding.from_dict
Holding_from_dict(d) ==
    Holding(DictGet(d, "name"), DictGet(d, "quantity"), DictGet(d, "avg_cost"))

find_holding(list, name) ==
    FirstIndex([i \in 1..Len(list) |-> list[i].name = Upper(name)])

\* input(...).strip() or PORTFOLIO_FILE
TrackerFileName(s) == IF Strip(s) = "" THEN PORTFOLIO_FILE ELSE Strip(s)

\* main(): the empty list and the first print_menu (lines 184-186)
tracker_start ==
    /\ prog = "tracker"
    /\ pc = "start"
    /\ tracker_portfolio' = <<>>
    /\ menus' = 1
    /\ pc' = "menu"
    /\ UNCHANGED <<prog, choice, loc, out, fs, portfolio>>
    /\ UNCHANGED <<crudVars, otherVars>>

\* main(): one pass of the menu loop (lines 187-204) up to the handler's
\* first prompt; view_summary (choice 4) prints and returns
tracker_main ==
    /\ prog = "tracker"
    /\ pc = "menu"
    /\ \E c \in {"1", " 2", "3 ", "4", "5", "6", "7", "8"} :
          /\ choice' = Strip(c)
          /\ Strip(c) # "7" => menus < MaxMenus
          /\ pc' = CASE Strip(c) = "1" -> "holding_name"
                     [] Strip(c) = "2" -> "edit_name"
                     [] Strip(c) = "3" -> "remove_name"
                     [] Strip(c) = "5" -> "save_name"
                     [] Strip(c) = "6" -> "load_name"
                     [] Strip(c) = "7" -> "exit"
                     [] OTHER -> "menu"
          /\ out' = CASE Strip(c) \in {"1", "2", "3"} -> "Enter asset ticker"
                      [] Strip(c) = "4" ->
                            IF tracker_portfolio = <<>> THEN "Portfolio is empty."
                            ELSE "Total P&L"
                      [] Strip(c) = "5" -> "Enter filename to save"
                      [] Strip(c) = "6" -> "Enter filename to load"
                      [] Strip(c) = "7" -> "Goodbye!"
                      [] OTHER -> "Invalid choice. Please try again."
          /\ menus' = IF pc' = "menu" THEN menus + 1 ELSE menus
    /\ UNCHANGED <<prog, loc, fs, portfolio, tracker_portfolio>>
    /\ UNCHANGED <<crudVars, otherVars>>

\* add_holding (lines 87-93)
add_holding ==
    /\ prog = "tracker"
    /\ UNCHANGED <<prog, choice, fs, portfolio>>
    /\ UNCHANGED <<crudVars, otherVars>>
    /\ \/ /\ pc = "holding_name"
          /\ \E s \in AssetInputs : loc' = [name |-> Upper(Strip(s))]
          /\ pc' = "holding_quantity"
          /\ out' = "Enter quantity"
          /\ UNCHANGED <<tracker_portfolio, menus>>
       \/ /\ pc = "holding_quantity"
          /\ \E s \in QtyInputs :
                IF float_ok(s)
                THEN /\ loc' = [name |-> loc.name, quantity |-> float(s)]
                     /\ pc' = "holding_avg_cost"
                     /\ out' = "Enter average cost"
                ELSE /\ out' = "Invalid input. Please enter a number."
                     /\ UNCHANGED <<loc, pc>>
          /\ UNCHANGED <<tracker_portfolio, menus>>
       \/ /\ pc = "holding_avg_cost"
          /\ \E s \in PriceInputs :
                IF float_ok(s)
                THEN /\ tracker_portfolio' = Append(tracker_portfolio,
                            Holding(loc.name, loc.quantity, float(s)))
                     /\ out' = "Holding added!"
                     /\ pc' = "menu"
                     /\ menus' = menus + 1
                     /\ loc' = NoLoc
                ELSE /\ out' = "Invalid input. Please enter a number."
                     /\ UNCHANGED <<loc, pc, tracker_portfolio, menus>>

\* edit_holding (lines 102-113)
edit_holding ==
    /\ prog = "tracker"
    /\ UNCHANGED <<prog, choice, fs, portfolio>>
    /\ UNCHANGED <<crudVars, otherVars>>
    /\ \/ /\ pc = "edit_name"
          /\ \E s \in AssetInputs :
                LET idx == find_holding(tracker_portfolio, Upper(Strip(s))) IN
                IF idx = -1
                THEN /\ out' = "Holding not found."
                     /\ pc' = "menu"
                     /\ menus' = menus + 1
                     /\ loc' = NoLoc
                ELSE /\ out' = "Editing"
                     /\ pc' = "edit_quantity"
                     /\ loc' = [idx |-> idx]
                     /\ UNCHANGED menus
          /\ UNCHANGED tracker_portfolio
       \/ /\ pc = "edit_quantity"
          /\ \E s \in QtyInputs :
                IF float_ok(s)
                THEN /\ tracker_portfolio' =
                            [tracker_portfolio EXCEPT ![loc.idx + 1].quantity = float(s)]
                     /\ pc' = "edit_avg_cost"
                     /\ out' = "Enter new average cost"
                ELSE /\ out' = "Invalid input. Please enter a number."
                     /\ UNCHANGED <<pc, tracker_portfolio>>
          /\ UNCHANGED <<loc, menus>>
       \/ /\ pc = "edit_avg_cost"
          /\ \E s \in PriceInputs :
                IF float_ok(s)
                THEN /\ tracker_portfolio' =
                            [tracker_portfolio EXCEPT ![loc.idx + 1].avg_cost = float(s)]
                     /\ out' = "Holding updated!"
                     /\ pc' = "menu"
                     /\ menus' = menus + 1
                     /\ loc' = NoLoc
                ELSE /\ out' = "Invalid input. Please enter a number."
                     /\ UNCHANGED <<loc, pc, tracker_portfolio, menus>>

\* remove_holding (lines 115-123)
remove_holding ==
    /\ prog = "tracker"
    /\ pc = "remove_name"
    /\ \E s \in AssetInputs :
          LET idx == find_holding(tracker_portfolio, Upper(Strip(s))) IN
          /\ tracker_portfolio' = IF idx = -1 THEN tracker_portfolio
                                  ELSE RemoveAt(tracker_portfolio, idx + 1)
          /\ out' = IF idx = -1 THEN "Holding not found." ELSE "Holding removed!"
    /\ pc' = "menu"
    /\ menus' = menus + 1
    /\ UNCHANGED <<prog, choice, loc, fs, portfolio>>
    /\ UNCHANGED <<crudVars, otherVars>>

\* save_portfolio (lines 154-160)
save_portfolio ==
    /\ prog = "tracker"
    /\ pc = "save_name"
    /\ \E s \in FileNameInputs :
          fs' = [fs EXCEPT ![TrackerFileName(s)] =
                    File([i \in 1..Len(tracker_portfolio) |->
                            Holding_to_dict(tracker_portfolio[i])])]
    /\ out' = "Portfolio saved"
    /\ pc' = "menu"
    /\ menus' = menus + 1
    /\ UNCHANGED <<prog, choice, loc, portfolio, tracker_portfolio>>
    /\ UNCHANGED <<crudVars, otherVars>>

\* load_portfolio (lines 162-172) and main's assignment of its result
\* (line 199)
load_portfolio ==
    /\ prog = "tracker"
    /\ pc = "load_name"
    /\ \E s \in FileNameInputs :
          IF ~fs[TrackerFileName(s)].exists
          THEN /\ out' = "File not found."
               /\ tracker_portfolio' = <<>>
          ELSE /\ out' = "Loaded"
               /\ tracker_portfolio' =
                    [i \in 1..Len(fs[TrackerFileName(s)].data) |->
                        Holding_from_dict(fs[TrackerFileName(s)].data[i])]
    /\ pc' = "menu"
    /\ menus' = menus + 1
    /\ UNCHANGED <<prog, choice, loc, fs, portfolio>>
    /\ UNCHANGED <<crudVars, otherVars>>

(***************************************************************************)
(* The simulator's and the tracker's specification                         *)
(***************************************************************************)
SimFileNames == {SIM_DEFAULT_FILE, PORTFOLIO_FILE, "mine.json"}

InitSim ==
    /\ prog \in {"order", "tracker"}
    /\ pc = "start"
    /\ choice = NoChoice
    /\ loc = NoLoc
    /\ out = ""
    /\ fs = [n \in SimFileNames |-> Missing]
    /\ dividends = <<>>
    /\ rates = <<>>
    /\ events = <<>>
    /\ portfolio = NoLoc
    /\ tracker_portfolio = <<>>
    /\ menus = 0
    /\ LauncherIdle
    /\ ToolsIdle
    /\ FinnhubIdle
    /\ YFIdle

NextSim ==
    \/ order_start
    \/ order_main
    \/ place_order
    \/ view_portfolio
    \/ save
    \/ load
    \/ tracker_start
    \/ tracker_main
    \/ add_holding
    \/ edit_holding
    \/ remove_holding
    \/ save_portfolio
    \/ load_portfolio

SpecSim == InitSim /\ [][NextSim]_vars

(***************************************************************************)
(* Properties of the simulator and the tracker                             *)
(***************************************************************************)
\* C4: a portfolio reached through execute_order equals the portfolio that
\* from_dict builds from its to_dict: same cash, same holding and average
\* cost for every asset, same trades in the same order.
C4_SaveLoadRoundTrip ==
    (prog = "order" /\ pc # "start") =>
        Portfolio_from_dict(Portfolio_to_dict(portfolio)) = portfolio

\* a portfolio with a trade and a holding that has just been loaded from the
\* file it was saved to
C4_Witness ==
    /\ prog = "order"
    /\ pc = "menu"
    /\ out = "Loaded"
    /\ Len(portfolio.trades) >= 1
    /\ \E a \in DOMAIN portfolio.holdings : portfolio.holdings[a] > 0

ExitChoice == IF prog = "order" THEN "6" ELSE "7"

\* the exit choice ends the loop at once and touches nothing; no other
\* choice, and no step of a handler, ends the loop
ExitStep ==
    /\ pc = "menu" =>
          IF choice' = ExitChoice
          THEN pc' = "exit" /\ UNCHANGED <<fs, portfolio, tracker_portfolio, menus>>
          ELSE pc' \notin {"exit", "raised"}
    /\ pc \notin {"menu", "start"} => pc' \notin {"exit", "raised"}

\* with the exit choice as the only input the menu was shown once, no file
\* was written and no operation changed the program's data
ExitOnlyInput ==
    (pc = "exit" /\ menus = 1) =>
        /\ choice = ExitChoice
        /\ \A n \in DOMAIN fs : ~fs[n].exists
        /\ prog = "order" => portfolio = Portfolio(INITIAL_CASH)
        /\ prog = "tracker" => tracker_portfolio = <<>>

\* C5: in the simulator (choice 6) and the tracker (choice 7) the loop ends
\* as soon as the exit choice is entered, from any menu state; given the exit
\* choice as the only input the menu is shown once, nothing else happens and
\* no file is written; every other choice keeps the loop running.
C5_ExitChoiceEndsLoop == [](ExitOnlyInput /\ pc # "raised") /\ [][ExitStep]_vars

\* the program has ended on the exit choice entered at the first menu
C5_Witness == pc = "exit" /\ menus = 1 /\ choice = ExitChoice

\* what the recorded trades add to the cash: sells minus buys
RECURSIVE TradesCash(_)
TradesCash(ts) ==
    IF ts = <<>> THEN 0
    ELSE (IF Head(ts).side = "buy" THEN 0 - Head(ts).qty * Head(ts).price
          ELSE Head(ts).qty * Head(ts).price) + TradesCash(Tail(ts))

\* the quantity of an asset the recorded trades bought minus the quantity
\* they sold
RECURSIVE TradesHeld(_, _)
TradesHeld(ts, asset) ==
    IF ts = <<>> THEN 0
    ELSE (IF Head(ts).asset # asset THEN 0
          ELSE IF Head(ts).side = "buy" THEN Head(ts).qty
          ELSE 0 - Head(ts).qty) + TradesHeld(Tail(ts), asset)

\* C17: after any sequence of execute_order calls on a new Portfolio the
\* cash is 10000 minus the cost of the recorded buys plus the proceeds of the
\* recorded sells, and the holding of every asset is the quantity bought
\* minus the quantity sold.
C17_CashAndHoldingsReconcile ==
    (prog = "order" /\ pc # "start") =>
        /\ portfolio.cash = INITIAL_CASH + TradesCash(portfolio.trades)
        /\ \A a \in DOMAIN portfolio.holdings :
              portfolio.holdings[a] = TradesHeld(portfolio.trades, a)
        /\ \A i \in 1..Len(portfolio.trades) :
              portfolio.trades[i].asset \in DOMAIN portfolio.holdings

(***************************************************************************)
(* main.py: the launcher                                                   *)
(***************************************************************************)
MaxLaunched == 3    \* scripts launched after which no launching option is entered

\* the lines typed at "Enter option (1-4, A, or Q): "
LauncherInputs == {"1", "2", "3", "4", "5", "a", "A", " q", "x"}

PROGRAMS ==
    << [option |-> "1", path |-> "Documentation/Programs/level1_fundamentals.py",
        interactive |-> FALSE],
       [option |-> "2", path |-> "Documentation/Programs/level2_intermediate.py",
        interactive |-> FALSE],
       [option |-> "3", path |-> "Documentation/Programs/level3_financial.py",
        interactive |-> FALSE],
       [option |-> "4", path |-> "Documentation/Programs/level4_advanced.py",
        interactive |-> FALSE],
       [option |-> "5", path |-> "UTILS - Learning Platform/learning_platform_cli.py",
        interactive |-> TRUE] >>

\* a lookup that falls back to the first program when nothing matches
matched_or_first(c) ==
    LET i == FirstIndex([k \in 1..Len(PROGRAMS) |-> PROGRAMS[k].option = c])
    IN  IF i = -1 THEN 1 ELSE i + 1

\* next((p for p in PROGRAMS if p["option"] == choice), None): its index, or 0
matched(c) ==
    LET i == FirstIndex([k \in 1..Len(PROGRAMS) |-> PROGRAMS[k].option = c])
    IN  i + 1

\* run_program up to the point where runpy.run_path has taken control
run_program_call(program) ==
    /\ running' = program.option
    /\ launched' = Append(launched, program.option)
    /\ out' = "Launching"

\* one pass of the while loop of main(), up to the next blocking call
launcher_main ==
    /\ prog = "launcher"
    /\ launcher_pc = "menu"
    /\ \E typed \in LauncherInputs :
          LET c == Upper(Strip(typed))
          IN  /\ choice' = c
              /\ IF c = "Q"
                 THEN /\ launcher_pc' = "done"
                      /\ out' = "Exiting the launcher"
                      /\ UNCHANGED <<launcher_i, running, batch, launched>>
                 ELSE IF c = "A"
                 THEN /\ Len(launched) < MaxLaunched
                      /\ launcher_pc' = "run_all"
                      /\ launcher_i' = 1
                      /\ batch' = <<>>
                      /\ out' = ""
                      /\ UNCHANGED <<running, launched>>
                 ELSE IF matched(c) # 0
                 THEN /\ Len(launched) < MaxLaunched
                      /\ run_program_call(PROGRAMS[matched(c)])
                      /\ batch' = <<PROGRAMS[matched(c)].option>>
                      /\ launcher_pc' = "script"
                      /\ UNCHANGED launcher_i
                 ELSE /\ out' = "Invalid selection"
                      /\ batch' = <<>>
                      /\ UNCHANGED <<launcher_pc, launcher_i, running, launched>>
    /\ UNCHANGED <<prog, pc, loc, fs, crudVars, simVars, socketVars,
                 toolVars>>

\* run_all_programs with every program run, the interactive ones too
run_all_programs_no_skip ==
    /\ prog = "launcher"
    /\ launcher_pc = "run_all"
    /\ IF launcher_i > Len(PROGRAMS)
       THEN /\ launcher_pc' = "menu"
            /\ UNCHANGED <<launcher_i, running, batch, launched, out>>
       ELSE /\ run_program_call(PROGRAMS[launcher_i])
            /\ batch' = Append(batch, PROGRAMS[launcher_i].option)
            /\ launcher_pc' = "script_all"
            /\ UNCHANGED launcher_i
    /\ UNCHANGED <<prog, pc, choice, loc, fs, crudVars, simVars, socketVars,
                 toolVars>>

\* one pass of the for loop of run_all_programs, up to the next blocking call
run_all_programs ==
    /\ prog = "launcher"
    /\ launcher_pc = "run_all"
    /\ IF launcher_i > Len(PROGRAMS)
       THEN /\ launcher_pc' = "menu"
            /\ UNCHANGED <<launcher_i, running, batch, launched, out>>
       ELSE IF PROGRAMS[launcher_i].interactive
       THEN /\ launcher_i' = launcher_i + 1
            /\ out' = "Skipping"
            /\ UNCHANGED <<launcher_pc, running, batch, launched>>
       ELSE /\ run_program_call(PROGRAMS[launcher_i])
            /\ batch' = Append(batch, PROGRAMS[launcher_i].option)
            /\ launcher_pc' = "script_all"
            /\ UNCHANGED launcher_i
    /\ UNCHANGED <<prog, pc, choice, loc, fs, crudVars, simVars, socketVars,
                 toolVars>>

\* runpy.run_path returns and run_program prints the follow-up resources
run_program ==
    /\ prog = "launcher"
    /\ launcher_pc \in {"script", "script_all"}
    /\ running' = ""
    /\ out' = "Suggested follow-up resources"
    /\ IF launcher_pc = "script_all"
       THEN /\ launcher_pc' = "run_all"
            /\ launcher_i' = launcher_i + 1
       ELSE /\ launcher_pc' = "menu"
            /\ UNCHANGED launcher_i
    /\ UNCHANGED <<batch, launched>>
    /\ UNCHANGED <<prog, pc, choice, loc, fs, crudVars, simVars, socketVars,
                 toolVars>>

InitLauncher ==
    /\ prog = "launcher"
    /\ pc = "off"
    /\ choice = NoChoice
    /\ loc = NoLoc
    /\ out = ""
    /\ fs = [n \in FileNames |-> Missing]
    /\ dividends = <<>>
    /\ rates = <<>>
    /\ events = <<>>
    /\ portfolio = NoLoc
    /\ tracker_portfolio = <<>>
    /\ menus = 0
    /\ launcher_pc = "menu"
    /\ launcher_i = 0
    /\ running = ""
    /\ batch = <<>>
    /\ launched = <<>>
    /\ FinnhubIdle
    /\ YFIdle
    /\ ToolsIdle

NextLauncher ==
    \/ launcher_main
    \/ run_all_programs
    \/ run_program

SpecLauncher == InitLauncher /\ [][NextLauncher]_vars

(***************************************************************************)
(* Properties of the launcher                                              *)
(***************************************************************************)
IsPrefix(s, t) == Len(s) <= Len(t) /\ \A i \in 1..Len(s) : s[i] = t[i]

RunAllProgress ==
    (launcher_pc # "off" /\ choice = "A") =>
        /\ IsPrefix(batch, <<"1", "2", "3", "4">>)
        /\ running # "5"
        /\ (launcher_pc = "menu" => batch = <<"1", "2", "3", "4">>)
        /\ (running # "" => running = batch[Len(batch)])

OneAtATime == (running' # running /\ running' # "") => running = ""

\* C6: while choice A is being handled the scripts launched so far are the
\* first ones of options 1, 2, 3, 4 in that order, the script in control is
\* the last one launched and never option 5; when the menu comes back all
\* four have been launched exactly once; and a script is given control only
\* when no other script has it.
C6_RunAllInMenuOrder == [](RunAllProgress) /\ [][OneAtATime]_vars

C6_Witness ==
    /\ launcher_pc = "menu"
    /\ choice = "A"
    /\ batch = <<"1", "2", "3", "4">>
    /\ running = ""

(***************************************************************************)
(* finnhub.py: run() in the main thread, ws.run_forever in the thread it   *)
(* starts.  The websocket library is outside the repository; its           *)
(* run_forever is modelled by the callbacks it makes: on_open once the     *)
(* connection is up, on_message per frame, on_error on a failure, on_close *)
(* before it returns.  The network decides which of them happen.           *)
(***************************************************************************)
SYMBOL == "AAPL"
SLEEP_SECONDS == 30

\* json.dumps({'type': 'subscribe', 'symbol': SYMBOL}), as the server reads it
subscribe_message == [type |-> "subscribe", symbol |-> SYMBOL]

\* run(): the WebSocketApp, the thread, wst.start(), and into time.sleep
finnhub_run ==
    /\ fh_pc = "start"
    /\ fh_wst' = "started"
    /\ fh_threads' = fh_threads + 1
    /\ fh_elapsed' = 0
    /\ fh_pc' = "sleeping"
    /\ UNCHANGED <<fh_sock, fh_sent>>
    /\ UNCHANGED <<cliVars, crudVars, simVars, launcherVars, yfVars, toolVars>>

\* one second of time.sleep(30) passes
finnhub_sleep ==
    /\ fh_pc = "sleeping"
    /\ fh_elapsed < SLEEP_SECONDS
    /\ fh_elapsed' = fh_elapsed + 1
    /\ UNCHANGED <<fh_pc, fh_wst, fh_sock, fh_sent, fh_threads>>
    /\ UNCHANGED <<cliVars, crudVars, simVars, launcherVars, yfVars, toolVars>>

\* ws.close() without waiting for time.sleep to return
finnhub_close_early ==
    /\ fh_pc = "sleeping"
    /\ out' = "Closing WebSocket after 30 seconds..."
    /\ fh_sock' = IF fh_sock = "connected" THEN "closed" ELSE fh_sock
    /\ fh_pc' = "join"
    /\ UNCHANGED <<fh_wst, fh_elapsed, fh_sent, fh_threads>>
    /\ UNCHANGED <<prog, pc, choice, loc, fs>>
    /\ UNCHANGED <<crudVars, simVars, launcherVars, yfVars, toolVars>>

\* time.sleep returns; the print and ws.close()
finnhub_close ==
    /\ fh_pc = "sleeping"
    /\ fh_elapsed = SLEEP_SECONDS
    /\ out' = "Closing WebSocket after 30 seconds..."
    /\ fh_sock' = IF fh_sock = "connected" THEN "closed" ELSE fh_sock
    /\ fh_pc' = "join"
    /\ UNCHANGED <<fh_wst, fh_elapsed, fh_sent, fh_threads>>
    /\ UNCHANGED <<prog, pc, choice, loc, fs>>
    /\ UNCHANGED <<crudVars, simVars, launcherVars, yfVars, toolVars>>

\* wst.join() returns, and with it run()
finnhub_join ==
    /\ fh_pc = "join"
    /\ fh_wst = "finished"
    /\ fh_pc' = "returned"
    /\ UNCHANGED <<fh_wst, fh_sock, fh_elapsed, fh_sent, fh_threads>>
    /\ UNCHANGED <<cliVars, crudVars, simVars, launcherVars, yfVars, toolVars>>

\* the thread's target: run_forever starts connecting, and the attempt ends
finnhub_run_forever ==
    /\ \/ /\ fh_wst = "started"
          /\ fh_wst' = "connecting"
          /\ UNCHANGED fh_sock
       \/ /\ fh_wst = "connecting"
          /\ \/ /\ fh_sock' = "connected"
                /\ fh_wst' = "on_open"
             \/ /\ fh_wst' = "on_error"
                /\ UNCHANGED fh_sock
       \/ /\ fh_wst = "reading"
          /\ \/ /\ fh_sock = "connected"
                /\ fh_sock' = "closed"
                /\ fh_wst' \in {"on_error", "on_close"}
             \/ /\ fh_sock = "closed"
                /\ fh_wst' = "on_close"
                /\ UNCHANGED fh_sock
    /\ UNCHANGED <<fh_pc, fh_elapsed, fh_sent, fh_threads>>
    /\ UNCHANGED <<cliVars, crudVars, simVars, launcherVars, yfVars, toolVars>>

\* on_open(ws); ws.send on a socket closed meanwhile fails inside the library
finnhub_on_open ==
    /\ fh_wst = "on_open"
    /\ out' = "WebSocket opened"
    /\ fh_sent' = IF fh_sock = "connected"
                  THEN Append(fh_sent, subscribe_message)
                  ELSE fh_sent
    /\ fh_wst' = IF fh_sock = "connected" THEN "reading" ELSE "on_error"
    /\ UNCHANGED <<fh_pc, fh_sock, fh_elapsed, fh_threads>>
    /\ UNCHANGED <<prog, pc, choice, loc, fs>>
    /\ UNCHANGED <<crudVars, simVars, launcherVars, yfVars, toolVars>>

\* on_message(ws, message) for a trade frame
finnhub_on_message ==
    /\ fh_wst = "reading"
    /\ fh_sock = "connected"
    /\ out' = "Symbol: AAPL"
    /\ UNCHANGED <<prog, pc, choice, loc, fs>>
    /\ UNCHANGED <<finnhubVars, crudVars, simVars, launcherVars, yfVars, toolVars>>

\* on_error(ws, error)
finnhub_on_error ==
    /\ fh_wst = "on_error"
    /\ out' = "WebSocket error:"
    /\ fh_sock' = IF fh_sock = "connected" THEN "closed" ELSE fh_sock
    /\ fh_wst' = "on_close"
    /\ UNCHANGED <<fh_pc, fh_elapsed, fh_sent, fh_threads>>
    /\ UNCHANGED <<prog, pc, choice, loc, fs>>
    /\ UNCHANGED <<crudVars, simVars, launcherVars, yfVars, toolVars>>

\* on_close(ws, close_status_code, close_msg); run_forever returns
finnhub_on_close ==
    /\ fh_wst = "on_close"
    /\ out' = "WebSocket connection closed"
    /\ fh_wst' = "finished"
    /\ UNCHANGED <<fh_pc, fh_sock, fh_elapsed, fh_sent, fh_threads>>
    /\ UNCHANGED <<prog, pc, choice, loc, fs>>
    /\ UNCHANGED <<crudVars, simVars, launcherVars, yfVars, toolVars>>

InitFinnhub ==
    /\ prog = "finnhub"
    /\ pc = "off"
    /\ choice = NoChoice
    /\ loc = NoLoc
    /\ out = ""
    /\ fs = [n \in FileNames |-> Missing]
    /\ dividends = <<>>
    /\ rates = <<>>
    /\ events = <<>>
    /\ portfolio = NoLoc
    /\ tracker_portfolio = <<>>
    /\ menus = 0
    /\ LauncherIdle
    /\ ToolsIdle
    /\ fh_pc = "start"
    /\ fh_wst = "none"
    /\ fh_sock = "none"
    /\ fh_elapsed = 0
    /\ fh_sent = <<>>
    /\ fh_threads = 0
    /\ YFIdle

NextFinnhub ==
    \/ finnhub_run
    \/ finnhub_sleep
    \/ finnhub_close
    \/ finnhub_join
    \/ finnhub_run_forever
    \/ finnhub_on_open
    \/ finnhub_on_message
    \/ finnhub_on_error
    \/ finnhub_on_close

SpecFinnhub == InitFinnhub /\ [][NextFinnhub]_vars

\* The main thread is scheduled and its clock advances: time.sleep returns
\* after its 30 seconds, and join returns once the thread has finished.
\* Nothing is assumed about the network, so none of the socket thread.
SpecFinnhubFair ==
    /\ SpecFinnhub
    /\ WF_vars(finnhub_run)
    /\ WF_vars(finnhub_sleep)
    /\ WF_vars(finnhub_close)
    /\ WF_vars(finnhub_join)

(***************************************************************************)
(* Properties of finnhub.py                                                *)
(***************************************************************************)
OneSocketThread ==
    /\ fh_threads <= 1
    /\ fh_pc \in {"sleeping", "join", "returned"} => fh_threads = 1
    /\ fh_pc = "returned" => fh_wst = "finished"

RunStep ==
    /\ fh_sent' # fh_sent =>
          /\ fh_sock = "connected"
          /\ fh_sent' = Append(fh_sent, [type |-> "subscribe", symbol |-> "AAPL"])
    /\ (fh_pc = "sleeping" /\ fh_pc' # "sleeping") =>
          /\ fh_elapsed = 30
          /\ fh_pc' = "join"
    /\ (fh_sock = "connected" /\ fh_sock' = "closed" /\ fh_pc' # fh_pc) =>
          fh_elapsed = 30
    /\ (fh_pc # "returned" /\ fh_pc' = "returned") =>
          /\ fh_pc = "join"
          /\ fh_wst = "finished"

\* C7: run() starts exactly one thread; a message goes out only on a socket
\* that is connected, and it is the subscribe message for the symbol; the
\* main thread leaves the sleep, and closes the socket, only when 30 seconds
\* have passed; run() returns only from the join, with the thread finished;
\* and once the thread has finished run() eventually returns.
C7_CloseAfterWindowThenJoin ==
    /\ [](OneSocketThread)
    /\ [][RunStep]_vars
    /\ (fh_wst = "finished" ~> fh_pc = "returned")

C7_Witness ==
    /\ fh_pc = "returned"
    /\ fh_wst = "finished"
    /\ fh_elapsed = 30
    /\ Len(fh_sent) = 1

(***************************************************************************)
(* yflive_websocket.py: one YFLiveWebSocket, the thread that calls its     *)
(* public methods, and the worker thread connect() starts.  Each step is   *)
(* one read or write of a field of the client, or one blocking call.       *)
(* WebSocketApp.close() is taken to stop the WebSocketApp it is called on  *)
(* in whatever state that is; run_forever is modelled by the callbacks it  *)
(* makes, as for finnhub.py.                                               *)
(***************************************************************************)
MaxCalls == 3       \* calls the calling thread makes
MaxAttempts == 3    \* WebSocketApp objects the worker creates
JOIN_TIMEOUT == 5
reconnect_interval == 5

Max(a, b) == IF a >= b THEN a ELSE b
Min(a, b) == IF a <= b THEN a ELSE b

\* everything but the client's own state
YFRest ==
    <<prog, pc, choice, loc, fs, crudVars, simVars, launcherVars, finnhubVars,
      toolVars>>

\* subscribe(symbols): the number of messages sent after the call
subscribe == IF yf_ws = 0 \/ yf_conn # "open" THEN yf_sent ELSE yf_sent + 1

\* connect() without the test of self.thread.is_alive()
YFLiveWebSocket_connect_unguarded ==
    /\ yf_caller = "idle"
    /\ yf_calls < MaxCalls
    /\ yf_calls' = yf_calls + 1
    /\ yf_call' = "connect"
    /\ yf_disconnected' = FALSE
    /\ out' = ""
    /\ yf_keep_running' = TRUE
    /\ yf_thread' = "alive"
    /\ yf_worker' = "while"
    /\ yf_since_close' = -1
    /\ yf_threads' = yf_threads + 1
    /\ UNCHANGED <<yf_reconnect, yf_custom_on_open, yf_ws, yf_conn, yf_caller,
                   yf_join_left, yf_sleep_left, yf_sent, yf_attempts>>
    /\ UNCHANGED YFRest

\* connect() called by the calling thread
YFLiveWebSocket_connect ==
    /\ yf_caller = "idle"
    /\ yf_calls < MaxCalls
    /\ yf_calls' = yf_calls + 1
    /\ yf_call' = "connect"
    /\ yf_disconnected' = FALSE
    /\ IF yf_thread = "alive"
       THEN /\ out' = "WebSocket is already running"
            /\ UNCHANGED <<yf_keep_running, yf_thread, yf_worker, yf_since_close,
                           yf_threads>>
       ELSE /\ out' = ""
            /\ yf_keep_running' = TRUE
            /\ yf_thread' = "alive"
            /\ yf_worker' = "while"
            /\ yf_since_close' = -1
            /\ yf_threads' = yf_threads + 1
    /\ UNCHANGED <<yf_reconnect, yf_custom_on_open, yf_ws, yf_conn, yf_caller,
                   yf_join_left, yf_sleep_left, yf_sent, yf_attempts>>
    /\ UNCHANGED YFRest

\* disconnect() called by the calling thread, one line per step
YFLiveWebSocket_disconnect ==
    /\ \/ /\ yf_caller = "idle"
          /\ yf_calls < MaxCalls
          /\ yf_calls' = yf_calls + 1
          /\ yf_call' = "disconnect"
          /\ yf_keep_running' = FALSE
          /\ yf_caller' = "if_ws"
          /\ UNCHANGED <<yf_conn, yf_since_close, yf_join_left, yf_disconnected>>
       \/ /\ yf_caller = "if_ws"
          /\ yf_caller' = IF yf_ws # 0 THEN "ws_close" ELSE "if_thread"
          /\ UNCHANGED <<yf_calls, yf_keep_running, yf_conn, yf_since_close,
                         yf_join_left, yf_disconnected, yf_call>>
       \/ /\ yf_caller = "ws_close"
          /\ yf_conn' = "closed"
          /\ yf_since_close' = IF yf_conn \in {"open", "connecting"}
                               THEN 0
                               ELSE yf_since_close
          /\ yf_caller' = "if_thread"
          /\ UNCHANGED <<yf_calls, yf_keep_running, yf_join_left, yf_disconnected,
                         yf_call>>
       \/ /\ yf_caller = "if_thread"
          /\ IF yf_thread # "none"
             THEN /\ yf_join_left' = JOIN_TIMEOUT
                  /\ yf_caller' = "join"
                  /\ UNCHANGED yf_disconnected
             ELSE /\ yf_caller' = "idle"
                  /\ yf_disconnected' = TRUE
                  /\ UNCHANGED yf_join_left
          /\ UNCHANGED <<yf_calls, yf_keep_running, yf_conn, yf_since_close, yf_call>>
       \/ /\ yf_caller = "join"
          /\ yf_thread = "dead" \/ yf_join_left = 0
          /\ yf_join_left' = 0
          /\ yf_caller' = "idle"
          /\ yf_disconnected' = TRUE
          /\ UNCHANGED <<yf_calls, yf_keep_running, yf_conn, yf_since_close, yf_call>>
    /\ UNCHANGED <<yf_reconnect, yf_custom_on_open, yf_ws, yf_thread, yf_worker,
                   yf_sleep_left, yf_sent, yf_attempts, yf_threads, out>>
    /\ UNCHANGED YFRest

\* subscribe(symbols) called by the calling thread
YFLiveWebSocket_subscribe ==
    /\ yf_caller = "idle"
    /\ yf_calls < MaxCalls
    /\ yf_calls' = yf_calls + 1
    /\ yf_call' = "subscribe"
    /\ yf_sent' = subscribe
    /\ out' = IF subscribe = yf_sent THEN "Not connected to WebSocket" ELSE "Subscribed"
    /\ UNCHANGED <<yf_reconnect, yf_custom_on_open, yf_keep_running, yf_ws, yf_conn,
                   yf_thread, yf_worker, yf_caller, yf_join_left, yf_sleep_left,
                   yf_since_close, yf_attempts, yf_disconnected, yf_threads>>
    /\ UNCHANGED YFRest

\* _run_websocket in the worker thread: the loop test, the new WebSocketApp,
\* the call of run_forever, and the except branch with its sleep
YFLiveWebSocket_run_websocket ==
    /\ \/ /\ yf_worker = "while"
          /\ IF yf_keep_running
             THEN /\ yf_worker' = "WebSocketApp"
                  /\ UNCHANGED <<yf_thread, yf_threads>>
             ELSE /\ yf_worker' = "returned"
                  /\ yf_thread' = "dead"
                  /\ yf_threads' = yf_threads - 1
          /\ UNCHANGED <<yf_ws, yf_conn, yf_attempts, yf_sleep_left, out>>
       \/ /\ yf_worker = "WebSocketApp"
          /\ yf_ws < MaxAttempts
          /\ yf_ws' = yf_ws + 1
          /\ yf_conn' = "created"
          /\ yf_worker' = "run_forever"
          /\ UNCHANGED <<yf_thread, yf_attempts, yf_sleep_left, out, yf_threads>>
       \/ /\ yf_worker = "run_forever"
          /\ IF yf_conn = "closed"
             THEN /\ yf_worker' = "while"
                  /\ UNCHANGED <<yf_conn, yf_attempts>>
             ELSE /\ yf_worker' = "connecting"
                  /\ yf_conn' = "connecting"
                  /\ yf_attempts' = yf_attempts + 1
          /\ UNCHANGED <<yf_ws, yf_thread, yf_sleep_left, out, yf_threads>>
       \/ /\ yf_worker = "except"
          /\ out' = "WebSocket error:"
          /\ IF yf_keep_running
             THEN /\ yf_sleep_left' = reconnect_interval
                  /\ yf_worker' = "except_sleep"
             ELSE /\ yf_worker' = "while"
                  /\ UNCHANGED yf_sleep_left
          /\ UNCHANGED <<yf_ws, yf_conn, yf_thread, yf_attempts, yf_threads>>
       \/ /\ yf_worker = "except_sleep"
          /\ yf_sleep_left = 0
          /\ yf_worker' = "while"
          /\ UNCHANGED <<yf_ws, yf_conn, yf_thread, yf_attempts, yf_sleep_left, out, yf_threads>>
    /\ UNCHANGED <<yf_reconnect, yf_custom_on_open, yf_keep_running, yf_caller,
                   yf_calls, yf_join_left, yf_since_close, yf_sent, yf_disconnected>>
    /\ UNCHANGED yf_call
    /\ UNCHANGED YFRest

\* self.ws.run_forever(): what the network makes of the connection
WebSocketApp_run_forever ==
    /\ \/ /\ yf_worker = "connecting"
          /\ \/ /\ yf_conn = "connecting"
                /\ yf_conn' = "open"
                /\ yf_worker' = "_on_open"
                /\ UNCHANGED yf_since_close
             \/ /\ yf_conn = "connecting"
                /\ yf_conn' = "closed"
                /\ yf_since_close' = 0
                /\ yf_worker' \in {"_on_error", "except"}
             \/ /\ yf_conn = "closed"
                /\ yf_worker' = "_on_close"
                /\ UNCHANGED <<yf_conn, yf_since_close>>
       \/ /\ yf_worker = "reading"
          /\ \/ /\ yf_conn = "open"
                /\ yf_conn' = "closed"
                /\ yf_since_close' = 0
                /\ yf_worker' \in {"_on_error", "_on_close"}
             \/ /\ yf_conn = "closed"
                /\ yf_worker' = "_on_close"
                /\ UNCHANGED <<yf_conn, yf_since_close>>
    /\ UNCHANGED <<yf_reconnect, yf_custom_on_open, yf_keep_running, yf_ws,
                   yf_thread, yf_caller, yf_calls, yf_join_left, yf_sleep_left,
                   yf_sent, yf_attempts, yf_disconnected, out>>
    /\ UNCHANGED <<yf_threads, yf_call>>
    /\ UNCHANGED YFRest

\* _on_open, with on_open_callback = on_open or self._default_on_open
YFLiveWebSocket_on_open ==
    /\ yf_worker = "_on_open"
    /\ IF yf_custom_on_open
       THEN /\ out' = "on_open"
            /\ UNCHANGED yf_sent
       ELSE /\ out' = "Connection opened"
            /\ yf_sent' = subscribe
    /\ yf_worker' = "reading"
    /\ UNCHANGED <<yf_reconnect, yf_custom_on_open, yf_keep_running, yf_ws, yf_conn,
                   yf_thread, yf_caller, yf_calls, yf_join_left, yf_sleep_left,
                   yf_since_close, yf_attempts, yf_disconnected>>
    /\ UNCHANGED <<yf_threads, yf_call>>
    /\ UNCHANGED YFRest

\* _on_message: the parsed frame goes to on_message_callback
YFLiveWebSocket_on_message ==
    /\ yf_worker = "reading"
    /\ yf_conn = "open"
    /\ out' = "Received data"
    /\ UNCHANGED yfVars
    /\ UNCHANGED YFRest

\* _on_error
YFLiveWebSocket_on_error ==
    /\ yf_worker = "_on_error"
    /\ out' = "Error"
    /\ yf_worker' = "_on_close"
    /\ UNCHANGED <<yf_reconnect, yf_custom_on_open, yf_keep_running, yf_ws, yf_conn,
                   yf_thread, yf_caller, yf_calls, yf_join_left, yf_sleep_left,
                   yf_since_close, yf_sent, yf_attempts, yf_disconnected>>
    /\ UNCHANGED <<yf_threads, yf_call>>
    /\ UNCHANGED YFRest

\* _on_close: the callback, then the sleep and the connect() of the reconnect
\* branch; connect() finds the worker itself alive and returns
YFLiveWebSocket_on_close ==
    /\ \/ /\ yf_worker = "_on_close"
          /\ IF yf_reconnect /\ yf_keep_running
             THEN /\ out' = "Attempting to reconnect"
                  /\ yf_sleep_left' = reconnect_interval
                  /\ yf_worker' = "_on_close_sleep"
             ELSE /\ out' = "Connection closed"
                  /\ yf_worker' = "while"
                  /\ UNCHANGED yf_sleep_left
       \/ /\ yf_worker = "_on_close_sleep"
          /\ yf_sleep_left = 0
          /\ out' = "WebSocket is already running"
          /\ yf_worker' = "while"
          /\ UNCHANGED yf_sleep_left
    /\ UNCHANGED <<yf_reconnect, yf_custom_on_open, yf_keep_running, yf_ws, yf_conn,
                   yf_thread, yf_caller, yf_calls, yf_join_left, yf_since_close,
                   yf_sent, yf_attempts, yf_disconnected>>
    /\ UNCHANGED <<yf_threads, yf_call>>
    /\ UNCHANGED YFRest

\* a second passes for time.sleep, for thread.join(timeout=5) and since the close
time_passes ==
    /\ yf_caller # "off"
    /\ yf_join_left' = Max(0, yf_join_left - 1)
    /\ yf_sleep_left' = Max(0, yf_sleep_left - 1)
    /\ yf_since_close' = IF yf_since_close < 0
                         THEN yf_since_close
                         ELSE Min(reconnect_interval, yf_since_close + 1)
    /\ UNCHANGED <<yf_reconnect, yf_custom_on_open, yf_keep_running, yf_ws, yf_conn,
                   yf_thread, yf_worker, yf_caller, yf_calls, yf_sent, yf_attempts,
                   yf_disconnected, out>>
    /\ UNCHANGED <<yf_threads, yf_call>>
    /\ UNCHANGED YFRest

InitYF ==
    /\ prog = "yflive"
    /\ pc = "off"
    /\ choice = NoChoice
    /\ loc = NoLoc
    /\ out = ""
    /\ fs = [n \in FileNames |-> Missing]
    /\ dividends = <<>>
    /\ rates = <<>>
    /\ events = <<>>
    /\ portfolio = NoLoc
    /\ tracker_portfolio = <<>>
    /\ menus = 0
    /\ LauncherIdle
    /\ ToolsIdle
    /\ FinnhubIdle
    /\ yf_reconnect \in BOOLEAN
    /\ yf_custom_on_open \in BOOLEAN
    /\ yf_keep_running = TRUE
    /\ yf_ws = 0
    /\ yf_conn = "none"
    /\ yf_thread = "none"
    /\ yf_worker = "off"
    /\ yf_caller = "idle"
    /\ yf_calls = 0
    /\ yf_join_left = 0
    /\ yf_sleep_left = 0
    /\ yf_since_close = -1
    /\ yf_sent = 0
    /\ yf_attempts = 0
    /\ yf_disconnected = FALSE
    /\ yf_threads = 0
    /\ yf_call = ""

NextYF ==
    \/ YFLiveWebSocket_connect
    \/ YFLiveWebSocket_disconnect
    \/ YFLiveWebSocket_subscribe
    \/ YFLiveWebSocket_run_websocket
    \/ WebSocketApp_run_forever
    \/ YFLiveWebSocket_on_open
    \/ YFLiveWebSocket_on_message
    \/ YFLiveWebSocket_on_error
    \/ YFLiveWebSocket_on_close
    \/ time_passes

SpecYF == InitYF /\ [][NextYF]_vars

(***************************************************************************)
(* Properties of the YFLiveWebSocket client                                *)
(***************************************************************************)
AfterDisconnect ==
    yf_disconnected' =>
        /\ yf_conn' # "open"
        /\ yf_disconnected => yf_attempts' = yf_attempts

\* C8: from the return of disconnect() on (until connect() is called again)
\* the latest socket is not open and the worker starts no connection attempt.
C8_DisconnectStopsWorker == [][AfterDisconnect]_vars

ReconnectStep ==
    (yf_attempts' # yf_attempts /\ yf_since_close >= 0) =>
        /\ yf_reconnect
        /\ yf_since_close >= reconnect_interval

\* C9: a worker whose connection has closed starts another attempt only if
\* reconnect is set, and then only when reconnect_interval seconds have
\* passed since the close.
C9_ReconnectFlagHonoured == [][ReconnectStep]_vars

OpenStep ==
    /\ (yf_worker = "_on_open" /\ yf_worker' # "_on_open" /\ yf_conn = "open") =>
          yf_sent' = yf_sent + 1
    /\ yf_sent' # yf_sent => yf_conn = "open"

\* C10: the open handler of a connection that is up sends one subscribe
\* message, whichever on_open the constructor was given, and a subscribe
\* message goes out only on a socket that is connected.
C10_SubscribeOnEveryOpen == [][OpenStep]_vars

ClientState ==
    <<yf_keep_running, yf_ws, yf_conn, yf_thread, yf_threads, yf_attempts, yf_sent,
      yf_reconnect, yf_custom_on_open>>

ConnectWhileAlive ==
    /\ (yf_thread = "alive" /\ yf_calls' # yf_calls /\ yf_call' = "connect") =>
          /\ UNCHANGED ClientState
          /\ UNCHANGED yf_worker
    /\ (yf_worker = "_on_close_sleep" /\ yf_worker' # yf_worker) =>
          /\ UNCHANGED ClientState
          /\ yf_worker' = "while"

OneWorker ==
    /\ yf_threads <= 1
    /\ yf_threads = 1 <=> yf_thread = "alive"

\* C11: never more than one worker thread is running, and a connect() made
\* while the worker is alive, by the calling thread or by the close handler
\* after its sleep, leaves keep_running, self.ws, the socket, self.thread and
\* the worker where they were.
C11_AtMostOneWorker == [](OneWorker) /\ [][ConnectWhileAlive]_vars

C11_Witness ==
    /\ yf_call = "connect"
    /\ yf_thread = "alive"
    /\ yf_threads = 1
    /\ yf_calls >= 2
    /\ out = "WebSocket is already running"
    /\ yf_since_close >= reconnect_interval

(***************************************************************************)
(* logger.py: the four functions on log.txt.  The file is its text, one    *)
(* character per element; an entry is the text handed to add_log or        *)
(* edit_log, which may hold a line break.                                  *)
(***************************************************************************)
MaxLogCalls == 3    \* calls of the logger's functions in one behaviour

LOG_FILE == "log.txt"
NL == "\n"

\* the texts passed as entry / new_entry, and the numbers passed as line_number
LogEntries == {<<>>, <<"a">>, <<"b", NL, "c">>}
LineNumbers == -1..3

RECURSIVE readlines(_)
\* f.readlines(): the lines of the text, each with its line break
readlines(text) ==
    IF text = <<>>
    THEN <<>>
    ELSE LET n == FirstIndex([i \in 1..Len(text) |-> text[i] = NL]) + 1
         IN  IF n = 0
             THEN <<text>>
             ELSE <<SubSeq(text, 1, n)>> \o readlines(SubSeq(text, n + 1, Len(text)))

RECURSIVE writelines(_)
\* f.writelines(logs): the lines one after the other
writelines(logs) ==
    IF logs = <<>> THEN <<>> ELSE Head(logs) \o writelines(Tail(logs))

\* read_logs() on the file f
read_logs_of(f) == IF ~f.exists THEN <<>> ELSE readlines(f.data)

LogCall(name, line_number, entry) ==
    [name |-> name, line_number |-> line_number, entry |-> entry]

add_log ==
    /\ prog = "logger"
    /\ log_calls < MaxLogCalls
    /\ \E entry \in LogEntries :
          /\ fs' = [fs EXCEPT ![LOG_FILE] = File(fs[LOG_FILE].data \o entry \o <<NL>>)]
          /\ log_call' = LogCall("add_log", 0, entry)
          /\ log_ret' = "None"
    /\ log_calls' = log_calls + 1
    /\ UNCHANGED <<prog, pc, choice, loc, out>>
    /\ UNCHANGED <<crudVars, simVars, launcherVars, socketVars, indicatorVars, optionsVars>>

read_logs ==
    /\ prog = "logger"
    /\ log_calls < MaxLogCalls
    /\ log_call' = LogCall("read_logs", 0, <<>>)
    /\ log_ret' = read_logs_of(fs[LOG_FILE])
    /\ log_calls' = log_calls + 1
    /\ UNCHANGED cliVars
    /\ UNCHANGED <<crudVars, simVars, launcherVars, socketVars, indicatorVars, optionsVars>>

edit_log ==
    /\ prog = "logger"
    /\ log_calls < MaxLogCalls
    /\ \E line_number \in LineNumbers, new_entry \in LogEntries :
          LET logs == read_logs_of(fs[LOG_FILE])
          IN  /\ log_call' = LogCall("edit_log", line_number, new_entry)
              /\ IF 0 <= line_number /\ line_number < Len(logs)
                 THEN /\ fs' = [fs EXCEPT ![LOG_FILE] =
                                  File(writelines([logs EXCEPT ![line_number + 1] =
                                                       new_entry \o <<NL>>]))]
                      /\ log_ret' = TRUE
                 ELSE /\ log_ret' = FALSE
                      /\ UNCHANGED fs
    /\ log_calls' = log_calls + 1
    /\ UNCHANGED <<prog, pc, choice, loc, out>>
    /\ UNCHANGED <<crudVars, simVars, launcherVars, socketVars, indicatorVars, optionsVars>>

\* delete_log taking line_number as a 1-based position
delete_log_one_based ==
    /\ prog = "logger"
    /\ log_calls < MaxLogCalls
    /\ \E line_number \in LineNumbers :
          LET logs == read_logs_of(fs[LOG_FILE])
          IN  /\ log_call' = LogCall("delete_log", line_number, <<>>)
              /\ IF 1 <= line_number /\ line_number <= Len(logs)
                 THEN /\ fs' = [fs EXCEPT ![LOG_FILE] =
                                  File(writelines(RemoveAt(logs, line_number)))]
                      /\ log_ret' = TRUE
                 ELSE /\ log_ret' = FALSE
                      /\ UNCHANGED fs
    /\ log_calls' = log_calls + 1
    /\ UNCHANGED <<prog, pc, choice, loc, out>>
    /\ UNCHANGED <<crudVars, simVars, launcherVars, socketVars, indicatorVars, optionsVars>>

delete_log ==
    /\ prog = "logger"
    /\ log_calls < MaxLogCalls
    /\ \E line_number \in LineNumbers :
          LET logs == read_logs_of(fs[LOG_FILE])
          IN  /\ log_call' = LogCall("delete_log", line_number, <<>>)
              /\ IF 0 <= line_number /\ line_number < Len(logs)
                 THEN /\ fs' = [fs EXCEPT ![LOG_FILE] =
                                  File(writelines(RemoveAt(logs, line_number + 1)))]
                      /\ log_ret' = TRUE
                 ELSE /\ log_ret' = FALSE
                      /\ UNCHANGED fs
    /\ log_calls' = log_calls + 1
    /\ UNCHANGED <<prog, pc, choice, loc, out>>
    /\ UNCHANGED <<crudVars, simVars, launcherVars, socketVars, indicatorVars, optionsVars>>

InitLogger ==
    /\ prog = "logger"
    /\ pc = "off"
    /\ choice = NoChoice
    /\ loc = NoLoc
    /\ out = ""
    /\ fs \in {[n \in {LOG_FILE} |-> Missing], [n \in {LOG_FILE} |-> File(<<"a", NL>>)]}
    /\ dividends = <<>>
    /\ rates = <<>>
    /\ events = <<>>
    /\ portfolio = NoLoc
    /\ tracker_portfolio = <<>>
    /\ menus = 0
    /\ LauncherIdle
    /\ FinnhubIdle
    /\ YFIdle
    /\ ToolsIdle

NextLogger ==
    \/ add_log
    \/ read_logs
    \/ edit_log
    \/ delete_log

SpecLogger == InitLogger /\ [][NextLogger]_vars

(***************************************************************************)
(* Properties of the logger                                                *)
(***************************************************************************)
\* a line of the file without its line break
EntryOf(line) ==
    IF line # <<>> /\ line[Len(line)] = NL
    THEN SubSeq(line, 1, Len(line) - 1)
    ELSE line

LogBefore == read_logs_of(fs[LOG_FILE])
LogAfter == read_logs_of(fs'[LOG_FILE])
Called(name) == log_calls' # log_calls /\ log_call'.name = name
InRange(k) == 0 <= k /\ k < Len(LogBefore)

EditStep ==
    Called("edit_log") =>
        LET k == log_call'.line_number
        IN  /\ log_ret' = InRange(k)
            /\ InRange(k) =>
                  /\ Len(LogAfter) = Len(LogBefore)
                  /\ EntryOf(LogAfter[k + 1]) = log_call'.entry
                  /\ \A i \in 1..Len(LogBefore) :
                        i # k + 1 => LogAfter[i] = LogBefore[i]
            /\ ~InRange(k) => fs' = fs

\* C12: edit_log returns True exactly for 0 <= line_number < number of
\* entries; then the log has as many entries as before, the one at that
\* index is new_entry and the others are as they were; otherwise the file
\* is as it was.
C12_EditReplacesOneEntry == [][EditStep]_vars

DeleteStep ==
    Called("delete_log") =>
        LET k == log_call'.line_number
        IN  /\ log_ret' = InRange(k)
            /\ InRange(k) =>
                  /\ Len(LogAfter) = Len(LogBefore) - 1
                  /\ \A i \in 1..Len(LogAfter) :
                        LogAfter[i] = LogBefore[IF i <= k THEN i ELSE i + 1]
            /\ ~InRange(k) => fs' = fs

\* C13: delete_log returns True exactly for 0 <= line_number < number of
\* entries; then the entry at that index is gone, the others follow in their
\* order, one entry fewer; otherwise the file is as it was, a missing file
\* still missing.
C13_DeleteRemovesOneEntry == [][DeleteStep]_vars

C13_Witness ==
    /\ log_calls > 0
    /\ log_call.name = "delete_log"
    /\ log_call.line_number = 0
    /\ log_ret = TRUE
    /\ Len(read_logs_of(fs[LOG_FILE])) >= 1

ReadAddStep ==
    /\ Called("read_logs") =>
          /\ ~fs[LOG_FILE].exists => log_ret' = <<>>
          /\ log_ret' = LogBefore
    /\ Called("add_log") =>
          /\ Len(LogAfter) = Len(LogBefore) + 1
          /\ EntryOf(LogAfter[Len(LogAfter)]) = log_call'.entry
          /\ \A i \in 1..Len(LogBefore) : LogAfter[i] = LogBefore[i]

\* C14: read_logs returns the empty list for a missing file and otherwise
\* the entries of the file in order, and add_log(e) on a log of n entries
\* leaves n+1 entries, the first n as before and the last one e.
C14_ReadReturnsEntriesInOrder == [][ReadAddStep]_vars

(***************************************************************************)
(* Properties of the launcher's menu                                       *)
(***************************************************************************)
Rejected ==
    /\ out' = "Invalid selection"
    /\ launcher_pc' = "menu"
    /\ UNCHANGED <<running, launched>>

SelectionStep14 ==
    launcher_pc = "menu" =>
        /\ choice' \notin {"1", "2", "3", "4", "A", "Q"} => Rejected
        /\ choice' = "Q" => launcher_pc' = "done" /\ UNCHANGED <<running, launched>>

SelectionStep15 ==
    launcher_pc = "menu" =>
        /\ choice' \notin {"1", "2", "3", "4", "5", "A", "Q"} => Rejected
        /\ choice' = "Q" => launcher_pc' = "done" /\ UNCHANGED <<running, launched>>
        /\ choice' \in {"1", "2", "3", "4", "5"} =>
              /\ running' = choice'
              /\ launched' = Append(launched, choice')
        /\ choice' = "A" => launcher_pc' = "run_all" /\ UNCHANGED <<running, launched>>

None == [none |-> TRUE]
Q(n, d) == IF d < 0 THEN Rat(0 - n, 0 - d) ELSE Rat(n, d)
QInt(i) == [n |-> i, d |-> 1]
QAdd(a, b) == Q(a.n * b.d + b.n * a.d, a.d * b.d)
QSub(a, b) == Q(a.n * b.d - b.n * a.d, a.d * b.d)
QMul(a, b) == Q(a.n * b.n, a.d * b.d)
QDiv(a, b) == Q(a.n * b.d, a.d * b.n)
QMax(a, b) == IF a.n * b.d >= b.n * a.d THEN a ELSE b
QMin(a, b) == IF a.n * b.d <= b.n * a.d THEN a ELSE b

RECURSIVE QSum(_)
\* sum(values), 0 for the empty list
QSum(values) ==
    IF values = <<>> THEN QInt(0) ELSE QAdd(Head(values), QSum(Tail(values)))

\* s[a:b]
PySlice(s, a, b) ==
    LET at(x) == IF x < 0 THEN Max(x + Len(s), 0) ELSE Min(x, Len(s))
    IN  SubSeq(s, at(a) + 1, at(b))

Digits == <<"0", "1", "2", "3", "4", "5", "6", "7", "8", "9">>
DigitValue(c) == FirstIndex([i \in 1..10 |-> Digits[i] = c])

RECURSIVE strip(_)
\* str.strip() of a text
strip(s) ==
    IF s = <<>> THEN s
    ELSE IF Head(s) \in {" ", NL} THEN strip(Tail(s))
    ELSE IF s[Len(s)] \in {" ", NL} THEN strip(SubSeq(s, 1, Len(s) - 1))
    ELSE s

RECURSIVE split(_, _)
\* str.split(sep) of a text: one piece more than there are separators
split(s, sep) ==
    LET n == FirstIndex([i \in 1..Len(s) |-> s[i] = sep]) + 1
    IN  IF n = 0 THEN <<s>>
        ELSE <<SubSeq(s, 1, n - 1)>> \o split(SubSeq(s, n + 1, Len(s)), sep)

\* whether float(s) and int(s) return for a text of digits, blanks, commas
\* and letters: blanks around the digits are skipped
number_ok(s) ==
    /\ strip(s) # <<>>
    /\ \A i \in 1..Len(strip(s)) : DigitValue(strip(s)[i]) >= 0

RECURSIVE DigitsValue(_)
DigitsValue(s) ==
    IF s = <<>> THEN 0
    ELSE 10 * DigitsValue(SubSeq(s, 1, Len(s) - 1)) + DigitValue(s[Len(s)])

\* the value float(s) and int(s) return
number(s) == DigitsValue(strip(s))

\* [None]*n
Nones(n) == IF n <= 0 THEN <<>> ELSE [i \in 1..n |-> None]

\* sma(prices, window): whether the division by window raises
sma_raises(prices, window) == window = 0 /\ prices # <<>>

\* sma(prices, window), lines 35-36; i runs over range(len(prices))
sma(prices, window) ==
    [j \in 1..Len(prices) |->
        LET i == j - 1 IN
        IF i >= window - 1
        THEN QDiv(QSum(PySlice(prices, i - window + 1, i + 1)), QInt(window))
        ELSE None]

\* ema(prices, window): whether k = 2 / (window + 1) raises
ema_raises(prices, window) == window + 1 = 0

RECURSIVE ema_vals(_, _)
\* the list ema_vals after the loop of lines 42-46
ema_vals(prices, k) ==
    IF Len(prices) <= 1 THEN prices
    ELSE LET before == ema_vals(SubSeq(prices, 1, Len(prices) - 1), k)
             price == prices[Len(prices)]
         IN  Append(before,
                    QAdd(QMul(price, k),
                         QMul(before[Len(before)], QSub(QInt(1), k))))

\* ema(prices, window), lines 39-47
ema(prices, window) ==
    LET k == Q(2, window + 1)
        vals == ema_vals(prices, k)
    IN  [j \in 1..Len(vals) |-> IF j - 1 >= window - 1 THEN vals[j] ELSE None]

\* the lists gains and losses of rsi, lines 51-56
gains(prices) ==
    [j \in 1..Max(Len(prices), 1) |->
        IF j = 1 THEN QInt(0)
        ELSE QMax(QSub(prices[j], prices[j - 1]), QInt(0))]
losses(prices) ==
    [j \in 1..Max(Len(prices), 1) |->
        IF j = 1 THEN QInt(0)
        ELSE QSub(QInt(0), QMin(QSub(prices[j], prices[j - 1]), QInt(0)))]

\* rsi(prices, period): whether the division by period raises
rsi_raises(prices, period) == period = 0 /\ prices # <<>>

\* the value rsi appends for index i, lines 59-65
rsi_at(prices, period, i) ==
    LET avg_gain == QDiv(QSum(PySlice(gains(prices), i - period + 1, i + 1)),
                         QInt(period))
        avg_loss == QDiv(QSum(PySlice(losses(prices), i - period + 1, i + 1)),
                         QInt(period))
    IN  IF avg_loss = QInt(0) THEN QInt(100)
        ELSE QSub(QInt(100),
                  QDiv(QInt(100), QAdd(QInt(1), QDiv(avg_gain, avg_loss))))

\* rsi(prices, period), lines 50-66: [None]*period, then one value for each i
\* of range(period, len(prices))
rsi(prices, period) ==
    Nones(period) \o
    [j \in 1..Max(Len(prices) - period, 0) |->
        rsi_at(prices, period, period + j - 1)]

\* the elements of a list that are not None
RECURSIVE NotNone(_)
NotNone(values) ==
    IF values = <<>> THEN <<>>
    ELSE IF Head(values) = None THEN NotNone(Tail(values))
    ELSE <<Head(values)>> \o NotNone(Tail(values))

\* [a - b if a is not None and b is not None else None for a, b in zip(x, y)]
ZipSub(x, y) ==
    [j \in 1..Min(Len(x), Len(y)) |->
        IF x[j] # None /\ y[j] # None THEN QSub(x[j], y[j]) ELSE None]

\* macd(prices), lines 69-77, with fast=12, slow=26, signal=9
macd(prices) ==
    LET macd_line == ZipSub(ema(prices, 12), ema(prices, 26))
        signal == ema(NotNone(macd_line), 9)
        signal_line == Nones(Len(macd_line) - Len(signal)) \o signal
    IN  [macd_line |-> macd_line, signal_line |-> signal_line,
         hist |-> ZipSub(macd_line, signal_line)]

\* the lines typed at "Enter prices separated by commas: "
PriceLineInputs ==
    {<<>>, <<",">>, <<"1", ",", "2">>, <<"3", ",", " ", "1", ",", "2">>,
     <<"1", ",", "x">>}
\* the lines typed at the window and period prompts
IntInputs == {<<"1">>, <<"2">>, <<"3">>, <<"0">>, <<"x">>}
CSV_FILE == "prices.csv"
CsvNameInputs == {CSV_FILE, " "}
CsvTexts == {<<"2", NL, "x", ",", "1", NL>>, <<"x", NL>>}

\* the rows csv.reader yields: the comma-separated fields of each line, no
\* field for an empty line
csv_reader(text) ==
    LET lines == readlines(text)
        row(line) == IF strip(line) = <<>> /\ Len(line) <= 1 THEN <<>>
                     ELSE split(IF line[Len(line)] = NL
                                THEN SubSeq(line, 1, Len(line) - 1)
                                ELSE line, ",")
    IN  [i \in 1..Len(lines) |-> row(lines[i])]

RECURSIVE Concat(_)
Concat(rows) == IF rows = <<>> THEN <<>> ELSE Head(rows) \o Concat(Tail(rows))

\* the list of floats among texts
floats(texts) ==
    LET ok(x) == number_ok(x)
        kept == SelectSeq(texts, ok)
    IN  [i \in 1..Len(kept) |-> QInt(number(kept[i]))]

\* `not prices`
no_prices_never(prices) == FALSE
no_prices(prices) == prices = <<>>

\* main(): the banner, prices = [] and the first print_menu (lines 108-118)
indicators_start ==
    /\ prog = "indicators"
    /\ pc = "start"
    /\ ti_prices' = <<>>
    /\ pc' = "menu"
    /\ UNCHANGED <<prog, choice, loc, out, fs, ti_vals>>
    /\ UNCHANGED <<crudVars, simVars, launcherVars, socketVars, loggerVars, optionsVars>>

\* main(): one pass of the menu loop (lines 119-157) up to the handler's
\* first prompt; macd (choice 6) asks nothing
indicators_main ==
    /\ prog = "indicators"
    /\ pc = "menu"
    /\ \E c \in {"1", " 2", "3 ", "4", "5", "6", "7", "9"} :
          LET ch == Strip(c)
              fn == CASE ch = "3" -> "sma" [] ch = "4" -> "ema"
                      [] ch = "5" -> "rsi" [] OTHER -> "macd"
          IN
          /\ choice' = ch
          /\ IF ch \in {"3", "4", "5", "6"} /\ no_prices(ti_prices)
             THEN /\ out' = "No prices loaded."
                  /\ pc' = "menu"
                  /\ loc' = NoLoc
             ELSE /\ pc' = CASE ch = "1" -> "input_prices"
                             [] ch = "2" -> "load_prices_csv"
                             [] ch \in {"3", "4", "5"} -> "input_int"
                             [] ch = "7" -> "exit"
                             [] OTHER -> "menu"
                  /\ loc' = CASE ch \in {"3", "4", "5"} -> [fn |-> fn]
                              [] ch = "6" -> [fn |-> fn, lines |-> macd(ti_prices)]
                              [] OTHER -> NoLoc
                  /\ out' = CASE ch = "1" -> "Enter prices separated by commas"
                              [] ch = "2" -> "Enter CSV filename"
                              [] ch = "3" -> "Enter SMA window"
                              [] ch = "4" -> "Enter EMA window"
                              [] ch = "5" -> "Enter RSI period (default 14)"
                              [] ch = "6" -> "Histogram"
                              [] ch = "7" -> "Goodbye!"
                              [] OTHER -> "Invalid choice. Please try again."
    /\ UNCHANGED <<prog, fs, indicatorVars>>
    /\ UNCHANGED <<crudVars, simVars, launcherVars, socketVars, loggerVars, optionsVars>>

\* prices = input_prices() (lines 12-14, 121): float() of a piece that is not
\* a number raises ValueError out of main
input_prices ==
    /\ prog = "indicators"
    /\ pc = "input_prices"
    /\ \E s \in PriceLineInputs :
          LET kept(x) == strip(x) # <<>>
              pieces == SelectSeq(split(s, ","), kept)
          IN  IF \E i \in 1..Len(pieces) : ~number_ok(pieces[i])
              THEN /\ out' = "ValueError"
                   /\ pc' = "raised"
                   /\ UNCHANGED ti_prices
              ELSE /\ ti_prices' = floats(pieces)
                   /\ pc' = "menu"
                   /\ UNCHANGED out
    /\ UNCHANGED <<prog, choice, loc, fs, ti_vals>>
    /\ UNCHANGED <<crudVars, simVars, launcherVars, socketVars, loggerVars, optionsVars>>

\* prices = load_prices_csv() (lines 17-32, 123)
load_prices_csv ==
    /\ prog = "indicators"
    /\ pc = "load_prices_csv"
    /\ \E name \in CsvNameInputs :
          LET fname == Strip(name) IN
          IF fname \in DOMAIN fs /\ fs[fname].exists
          THEN /\ ti_prices' = floats(Concat(csv_reader(fs[fname].data)))
               /\ out' = "Loaded"
          ELSE /\ ti_prices' = <<>>
               /\ out' = "Error loading file"
    /\ pc' = "menu"
    /\ UNCHANGED <<prog, choice, loc, fs, ti_vals>>
    /\ UNCHANGED <<crudVars, simVars, launcherVars, socketVars, loggerVars, optionsVars>>

\* input_int (lines 99-104) and the indicator call and print_plot that
\* follow it (lines 128-130, 135-137, 142-144): a division by zero in the
\* indicator raises out of main
calculate ==
    /\ prog = "indicators"
    /\ pc = "input_int"
    /\ \E s \in IntInputs :
          IF ~number_ok(s)
          THEN /\ out' = "Invalid input. Please enter an integer."
               /\ UNCHANGED <<pc, loc, ti_vals>>
          ELSE LET window == number(s) IN
               IF \/ loc.fn = "sma" /\ sma_raises(ti_prices, window)
                  \/ loc.fn = "ema" /\ ema_raises(ti_prices, window)
                  \/ loc.fn = "rsi" /\ rsi_raises(ti_prices, window)
               THEN /\ out' = "ZeroDivisionError"
                    /\ pc' = "raised"
                    /\ UNCHANGED <<loc, ti_vals>>
               ELSE /\ ti_vals' = CASE loc.fn = "sma" -> sma(ti_prices, window)
                                    [] loc.fn = "ema" -> ema(ti_prices, window)
                                    [] loc.fn = "rsi" -> rsi(ti_prices, window)
                    /\ loc' = [fn |-> loc.fn, window |-> window]
                    /\ out' = CASE loc.fn = "sma" -> "SMA"
                                [] loc.fn = "ema" -> "EMA"
                                [] loc.fn = "rsi" -> "RSI"
                    /\ pc' = "menu"
    /\ UNCHANGED <<prog, choice, fs, ti_prices>>
    /\ UNCHANGED <<crudVars, simVars, launcherVars, socketVars, loggerVars, optionsVars>>

InitIndicators ==
    /\ prog = "indicators"
    /\ pc = "start"
    /\ choice = NoChoice
    /\ loc = NoLoc
    /\ out = ""
    /\ fs \in {[n \in {CSV_FILE} |-> Missing]}
              \cup {[n \in {CSV_FILE} |-> File(t)] : t \in CsvTexts}
    /\ dividends = <<>>
    /\ rates = <<>>
    /\ events = <<>>
    /\ portfolio = NoLoc
    /\ tracker_portfolio = <<>>
    /\ menus = 0
    /\ LauncherIdle
    /\ FinnhubIdle
    /\ YFIdle
    /\ ToolsIdle

NextIndicators ==
    \/ indicators_start
    \/ indicators_main
    \/ input_prices
    \/ load_prices_csv
    \/ calculate

SpecIndicators == InitIndicators /\ [][NextIndicators]_vars

(***************************************************************************)
(* Properties of the technical indicators calculator                       *)
(***************************************************************************)
\* what the menu does with a choice while the price list is empty, and with
\* choice 7
NoPricesStep ==
    (prog = "indicators" /\ pc = "menu") =>
        /\ (ti_prices = <<>> /\ choice' \in {"3", "4", "5", "6"}) =>
              /\ out' = "No prices loaded."
              /\ pc' = "menu"
              /\ loc' = NoLoc
              /\ UNCHANGED <<ti_prices, ti_vals>>
        /\ choice' = "7" => pc' = "exit"

\* the window prompt of an indicator is only reached with prices
PromptHasPrices ==
    (prog = "indicators" /\ pc = "input_int") => ti_prices # <<>>

\* C16: while the price list is empty (at start, or after an entry or a load
\* that yields no prices) choices 3 to 6 compute no indicator: each prints
\* 'No prices loaded.' and returns to the menu; choice 7 ends the loop from
\* any state.
C16_NoPricesNoIndicator == [](PromptHasPrices) /\ [][NoPricesStep]_vars

\* an indicator choice was refused with the price list emptied again after an
\* indicator had been computed on earlier prices
C16_Witness ==
    /\ prog = "indicators"
    /\ pc = "menu"
    /\ choice \in {"3", "4", "5", "6"}
    /\ out = "No prices loaded."
    /\ ti_prices = <<>>
    /\ ti_vals # <<>>

\* C18: sma, ema and rsi return exactly one result per input price for every
\* price list and every positive window or period: None in the warm-up
\* positions (the first window-1 for sma and ema, the first period for rsi)
\* and a number in every later position.
C18_OneResultPerPrice ==
    (prog = "indicators" /\ pc = "menu" /\ "window" \in DOMAIN loc) =>
        LET warm_up == IF loc.fn = "rsi" THEN loc.window ELSE loc.window - 1
        IN  loc.window > 0 =>
              /\ Len(ti_vals) = Len(ti_prices)
              /\ \A j \in 1..Len(ti_vals) :
                    (ti_vals[j] = None) <=> (j <= warm_up)

(***************************************************************************)
(* options_chain_simulator.py                                              *)
(***************************************************************************)
\* the lines typed at the number prompts and at "Option type (call/put): "
StockInputs == {<<"1", "0", "0">>, <<"5">>, <<"0">>, <<"x">>}
RateInputs == {<<"0">>, <<"1">>, <<>>}
StrikeInputs == {<<"5">>, <<"1", "0">>, <<"2", "5">>, <<"0">>, <<"x">>}
CALL == <<"c", "a", "l", "l">>
OptionTypeInputs == {CALL, <<" ", "P", "U", "T">>, <<"x">>}

\* str.lower() of a text
lower(s) ==
    [i \in 1..Len(s) |->
        CASE s[i] = "P" -> "p" [] s[i] = "U" -> "u" [] s[i] = "T" -> "t"
          [] OTHER -> s[i]]

\* int(x) of a float: towards zero
int(x) == IF x.n >= 0 THEN x.n \div x.d ELSE 0 - ((0 - x.n) \div x.d)

\* round(x) of a float: to the nearest integer, a half to the even one
round(x) ==
    LET low == x.n \div x.d
        twice == 2 * (x.n % x.d)
    IN  IF twice < x.d THEN low
        ELSE IF twice > x.d THEN low + 1
        ELSE IF low % 2 = 0 THEN low ELSE low + 1

\* range(start, stop, step): whether it raises ValueError
range_raises(start, stop, step) == step = 0

\* list(range(start, stop, step))
range(start, stop, step) ==
    LET n == IF step > 0
             THEN (IF stop > start THEN (stop - start + step - 1) \div step ELSE 0)
             ELSE (IF stop < start
                   THEN (start - stop + (0 - step) - 1) \div (0 - step) ELSE 0)
    IN  [i \in 1..n |-> start + (i - 1) * step]

\* payoff(option_type, S, K), lines 56-60
payoff(option_type, S, K) ==
    IF option_type = CALL
    THEN QMax(QSub(S, K), QInt(0))
    ELSE QMax(QSub(K, S), QInt(0))

\* black_scholes_price (line 22): whether S / K, math.log, math.sqrt or the
\* division by sigma * sqrt(T) raises
black_scholes_raises(S, K, T, sigma) ==
    \/ K.n = 0
    \/ QDiv(S, K).n <= 0
    \/ T.n < 0
    \/ sigma.n = 0
    \/ T.n = 0

\* the rows of the payoff diagram, lines 116-119: s, p and the length of bar
payoff_rows(option_type, K) ==
    LET prices == range(int(QMul(Q(1, 2), K)), int(QMul(Q(3, 2), K)) + 1,
                        int(QDiv(K, QInt(10))))
    IN  [i \in 1..Len(prices) |->
            LET p == payoff(option_type, QInt(prices[i]), K)
            IN  [s |-> prices[i], p |-> p, bar |-> int(QDiv(p, QInt(2)))]]

\* S, sigma, r, T and strikes as main sets them, lines 89-93
DefaultParams == [S |-> QInt(100), sigma |-> Q(1, 5), r |-> Q(1, 100), T |-> Q(1, 2)]
DefaultStrikes == <<80, 90, 100, 110, 120>>

\* [round(S * x) for x in [0.8, 0.9, 1.0, 1.1, 1.2]]
strikes_around(S) ==
    [i \in 1..5 |-> round(QMul(S, Q(7 + i, 10)))]

\* main(): the banner, the defaults and the first print_menu (lines 81-95)
options_start ==
    /\ prog = "options"
    /\ pc = "start"
    /\ oc_params' = DefaultParams
    /\ oc_strikes' = DefaultStrikes
    /\ pc' = "menu"
    /\ UNCHANGED <<prog, choice, loc, out, fs, oc_rows>>
    /\ UNCHANGED <<crudVars, simVars, launcherVars, socketVars, loggerVars, indicatorVars>>

\* main(): one pass of the menu loop (lines 96-131) up to the handler's first
\* prompt; the options chain (choice 2) asks nothing and raises when
\* black_scholes_price does for one of the strikes
options_main ==
    /\ prog = "options"
    /\ pc = "menu"
    /\ \E c \in {"1", " 2", "3 ", "4", "5", "9"} :
          LET ch == Strip(c)
              chain_raises ==
                  \E i \in 1..Len(oc_strikes) :
                      black_scholes_raises(oc_params.S, QInt(oc_strikes[i]),
                                           oc_params.T, oc_params.sigma)
          IN
          /\ choice' = ch
          /\ pc' = CASE ch = "1" -> "set_S"
                     [] ch = "2" -> IF chain_raises THEN "raised" ELSE "menu"
                     [] ch = "3" -> "payoff_K"
                     [] ch = "4" -> "greeks_K"
                     [] ch = "5" -> "exit"
                     [] OTHER -> "menu"
          /\ loc' = CASE ch = "3" -> [fn |-> "payoff"]
                      [] ch = "4" -> [fn |-> "greeks"]
                      [] OTHER -> NoLoc
          /\ out' = CASE ch = "1" -> "Enter stock price"
                      [] ch = "2" -> IF chain_raises THEN "Error" ELSE "Options Chain"
                      [] ch \in {"3", "4"} -> "Enter strike price"
                      [] ch = "5" -> "Goodbye!"
                      [] OTHER -> "Invalid choice. Please try again."
    /\ UNCHANGED <<prog, fs, optionsVars>>
    /\ UNCHANGED <<crudVars, simVars, launcherVars, socketVars, loggerVars, indicatorVars>>

\* choice 1 (lines 98-104): four input_float prompts, each asking again on a
\* text that is not a number, then the strikes around the stock price
set_parameters ==
    /\ prog = "options"
    /\ UNCHANGED <<prog, choice, loc, fs, oc_rows>>
    /\ UNCHANGED <<crudVars, simVars, launcherVars, socketVars, loggerVars, indicatorVars>>
    /\ \/ /\ pc = "set_S"
          /\ \E s \in StockInputs :
                IF ~number_ok(s)
                THEN /\ out' = "Invalid input. Please enter a number."
                     /\ UNCHANGED <<pc, oc_params>>
                ELSE /\ oc_params' = [oc_params EXCEPT !.S = QInt(number(s))]
                     /\ out' = "Enter volatility"
                     /\ pc' = "set_sigma"
          /\ UNCHANGED oc_strikes
       \/ /\ pc = "set_sigma"
          /\ \E s \in RateInputs :
                IF ~number_ok(s)
                THEN /\ out' = "Invalid input. Please enter a number."
                     /\ UNCHANGED <<pc, oc_params>>
                ELSE /\ oc_params' = [oc_params EXCEPT !.sigma = QInt(number(s))]
                     /\ out' = "Enter risk-free rate"
                     /\ pc' = "set_r"
          /\ UNCHANGED oc_strikes
       \/ /\ pc = "set_r"
          /\ \E s \in RateInputs :
                IF ~number_ok(s)
                THEN /\ out' = "Invalid input. Please enter a number."
                     /\ UNCHANGED <<pc, oc_params>>
                ELSE /\ oc_params' = [oc_params EXCEPT !.r = QInt(number(s))]
                     /\ out' = "Enter expiry in years"
                     /\ pc' = "set_T"
          /\ UNCHANGED oc_strikes
       \/ /\ pc = "set_T"
          /\ \E s \in RateInputs :
                IF ~number_ok(s)
                THEN /\ out' = "Invalid input. Please enter a number."
                     /\ UNCHANGED <<pc, oc_params, oc_strikes>>
                ELSE /\ oc_params' = [oc_params EXCEPT !.T = QInt(number(s))]
                     /\ oc_strikes' = strikes_around(oc_params.S)
                     /\ out' = "Available strikes"
                     /\ pc' = "menu"

\* choice 3 (lines 113-119): the strike, the option type, then the rows of
\* the diagram; range() raises ValueError out of main on a step of 0
payoff_diagram ==
    /\ prog = "options"
    /\ UNCHANGED <<prog, choice, fs, oc_params, oc_strikes>>
    /\ UNCHANGED <<crudVars, simVars, launcherVars, socketVars, loggerVars, indicatorVars>>
    /\ \/ /\ pc = "payoff_K"
          /\ \E s \in StrikeInputs :
                IF ~number_ok(s)
                THEN /\ out' = "Invalid input. Please enter a number."
                     /\ UNCHANGED <<pc, loc>>
                ELSE /\ loc' = [fn |-> "payoff", K |-> QInt(number(s))]
                     /\ out' = "Option type (call/put)"
                     /\ pc' = "payoff_type"
          /\ UNCHANGED oc_rows
       \/ /\ pc = "payoff_type"
          /\ \E s \in OptionTypeInputs :
                LET option_type == lower(strip(s))
                    K == loc.K
                IN
                /\ loc' = [fn |-> "payoff", K |-> K, option_type |-> option_type]
                /\ IF range_raises(int(QMul(Q(1, 2), K)),
                                   int(QMul(Q(3, 2), K)) + 1,
                                   int(QDiv(K, QInt(10))))
                   THEN /\ oc_rows' = <<>>
                        /\ out' = "ValueError"
                        /\ pc' = "raised"
                   ELSE /\ oc_rows' = payoff_rows(option_type, K)
                        /\ out' = "Payoff diagram"
                        /\ pc' = "menu"

\* choice 4 (lines 121-126): the strike, the option type, then the Greeks;
\* black_scholes_price can raise out of main
calculate_greeks ==
    /\ prog = "options"
    /\ UNCHANGED <<prog, choice, fs, optionsVars>>
    /\ UNCHANGED <<crudVars, simVars, launcherVars, socketVars, loggerVars, indicatorVars>>
    /\ \/ /\ pc = "greeks_K"
          /\ \E s \in StrikeInputs :
                IF ~number_ok(s)
                THEN /\ out' = "Invalid input. Please enter a number."
                     /\ UNCHANGED <<pc, loc>>
                ELSE /\ loc' = [fn |-> "greeks", K |-> QInt(number(s))]
                     /\ out' = "Option type (call/put)"
                     /\ pc' = "greeks_type"
       \/ /\ pc = "greeks_type"
          /\ \E s \in OptionTypeInputs :
                /\ loc' = [fn |-> "greeks", K |-> loc.K,
                           option_type |-> lower(strip(s))]
                /\ IF black_scholes_raises(oc_params.S, loc.K, oc_params.T,
                                           oc_params.sigma)
                   THEN out' = "Error" /\ pc' = "raised"
                   ELSE out' = "Option Greeks" /\ pc' = "menu"

InitOptions ==
    /\ prog = "options"
    /\ pc = "start"
    /\ choice = NoChoice
    /\ loc = NoLoc
    /\ out = ""
    /\ fs = [n \in {} |-> Missing]
    /\ dividends = <<>>
    /\ rates = <<>>
    /\ events = <<>>
    /\ portfolio = NoLoc
    /\ tracker_portfolio = <<>>
    /\ menus = 0
    /\ LauncherIdle
    /\ FinnhubIdle
    /\ YFIdle
    /\ ToolsIdle

NextOptions ==
    \/ options_start
    \/ options_main
    \/ set_parameters
    \/ payoff_diagram
    \/ calculate_greeks

SpecOptions == InitOptions /\ [][NextOptions]_vars

(***************************************************************************)
(* Properties of the options chain simulator                               *)
(***************************************************************************)
\* C19: for every strike K > 0 entered at choice 3 the payoff diagram prints
\* rows for stock prices running from int(0.5*K) up to at most int(1.5*K)
\* and control returns to the menu without an exception; every payoff
\* printed is max(S-K, 0) for a call and max(K-S, 0) otherwise, hence never
\* negative.
C19_PayoffDiagramForPositiveStrike ==
    (/\ prog = "options"
     /\ "option_type" \in DOMAIN loc
     /\ loc.fn = "payoff"
     /\ loc.K.n > 0) =>
        /\ pc = "menu"
        /\ oc_rows # <<>>
        /\ oc_rows[1].s = int(QMul(Q(1, 2), loc.K))
        /\ \A i \in 1..Len(oc_rows) :
              /\ oc_rows[i].s <= int(QMul(Q(3, 2), loc.K))
              /\ i > 1 => oc_rows[i].s > oc_rows[i - 1].s
              /\ oc_rows[i].p.n >= 0
              /\ oc_rows[i].p =
                    IF loc.option_type = CALL
                    THEN QMax(QSub(QInt(oc_rows[i].s), loc.K), QInt(0))
                    ELSE QMax(QSub(loc.K, QInt(oc_rows[i].s)), QInt(0))
====
